---- MODULE Spec2Model ----
(***************************************************************************)
(* Model of the manifest fixing engine of .github/scripts/fix_template.py: *)
(* the resource locator (check_resource_path), the dispatcher              *)
(* (set_template) and the mutation functions it calls.                     *)
(*                                                                         *)
(* YAML values are tagged records:                                         *)
(*   mapping  [t |-> "map", m |-> function from key strings to values]     *)
(*   sequence [t |-> "seq", s |-> sequence of values]                      *)
(*   string   [t |-> "str", v |-> string]                                  *)
(*   integer  [t |-> "int", n |-> integer]                                 *)
(*   null     [t |-> "null"]                                               *)
(* Python lists are 0-based, TLA+ sequences 1-based: list index k is       *)
(* sequence index k + 1.  The key order of a mapping is not modelled.      *)
(***************************************************************************)
EXTENDS Integers, Sequences, FiniteSets, TLC

VARIABLES template, network_policy, limit_range, resource_quota,
          service_account_idx, outcome, finding, nfindings, prev, report,
          registry

vars == <<template, network_policy, limit_range, resource_quota,
          service_account_idx, outcome, finding, nfindings, prev, report,
          registry>>

---------------------------------------------------------------------------
(* Bounds *)

\* Number of findings applied in one run.
MaxFindings == 2

\* Number of rules of the ClusterRole of the initial manifest.
MaxRules == 2

\* Number of findings of a run that only assigns ServiceAccount names.
MaxAccounts == 12

---------------------------------------------------------------------------
(* YAML values *)

YMap(f) == [t |-> "map", m |-> f]
YSeq(s) == [t |-> "seq", s |-> s]
YStr(v) == [t |-> "str", v |-> v]
YInt(n) == [t |-> "int", n |-> n]
YNull == [t |-> "null"]
YBool(b) == [t |-> "bool", b |-> b]
EmptyMap == YMap(<<>>)

IsMap(o) == o.t = "map"
IsSeq(o) == o.t = "seq"
IsStr(o) == o.t = "str"
IsNull(o) == o.t = "null"

\* Python: key in obj, for a mapping obj
Has(o, k) == IsMap(o) /\ k \in DOMAIN o.m

\* Python: obj[key], for a mapping obj that has the key
Get(o, k) == o.m[k]

\* Python: obj[key] = value, for a mapping obj
Put(o, k, val) == YMap([kk \in (DOMAIN o.m) \cup {k} |-> IF kk = k THEN val ELSE o.m[kk]])

\* Python: del obj[key]
Del(o, k) == YMap([kk \in (DOMAIN o.m) \ {k} |-> o.m[kk]])

\* Python: {key: value}
Map1(k, val) == YMap([kk \in {k} |-> val])

\* Python truth value of an object (bool(obj))
Truthy(o) ==
    CASE o.t = "null" -> FALSE
      [] o.t = "map" -> DOMAIN o.m # {}
      [] o.t = "seq" -> Len(o.s) > 0
      [] o.t = "str" -> o.v # ""
      [] o.t = "int" -> o.n # 0
      [] o.t = "bool" -> o.b
      [] OTHER -> TRUE

\* The outcome of a mutation function that raised an exception
Err == [t |-> "error"]
IsErr(o) == o.t = "error"

\* Python: value in list, for a list of strings
InList(o, str) == IsSeq(o) /\ \E i \in 1..Len(o.s) : o.s[i] = YStr(str)

\* A list of strings
StrList(s) == YSeq([i \in 1..Len(s) |-> YStr(s[i])])

---------------------------------------------------------------------------
(* Resource locator *)

\* str.casefold() on the kind names that occur in documents and resource paths
Lower ==
    ("Pod" :> "pod") @@ ("Deployment" :> "deployment") @@
    ("StatefulSet" :> "statefulset") @@ ("ClusterRole" :> "clusterrole") @@
    ("ClusterRoleBinding" :> "clusterrolebinding") @@
    ("NetworkPolicy" :> "networkpolicy") @@ ("LimitRange" :> "limitrange") @@
    ("ResourceQuota" :> "resourcequota") @@
    ("PodDisruptionBudget" :> "poddisruptionbudget")

casefold(str) == IF str \in DOMAIN Lower THEN Lower[str] ELSE str

\* path_list[-1]
Last(path_list) == path_list[Len(path_list)]

\* check_resource_path(path_list, document); path_list is resource_path.split("/"),
\* path_list[1] of the code is path_list[2] here
check_resource_path_IgnoreNs(path_list, document) ==
    /\ Len(path_list) > 0
    /\ Truthy(document)
    /\ casefold(Get(document, "kind").v) = casefold(path_list[1])
    /\ Get(Get(document, "metadata"), "name") = YStr(Last(path_list))

check_resource_path(path_list, document) ==
    /\ Len(path_list) > 0
    /\ Truthy(document)
    /\ casefold(Get(document, "kind").v) = casefold(path_list[1])
    /\ LET metadata == Get(document, "metadata")
           name == Get(metadata, "name")
       IN  IF Has(metadata, "namespace")
           THEN LET namespace == Get(metadata, "namespace")
                IN  CASE namespace = YStr("default") -> name = YStr(Last(path_list))
                      [] namespace = YStr("test-ns") -> name = YStr(Last(path_list))
                      [] namespace = YStr("kube-system") -> name = YStr(Last(path_list))
                      [] namespace = YStr(path_list[2]) -> name = YStr(Last(path_list))
                      [] OTHER -> FALSE
           ELSE IF path_list[2] = "default"
                THEN name = YStr(Last(path_list))
                ELSE name = YStr(path_list[2])

---------------------------------------------------------------------------
(* Object path walk of set_template *)

\* int(key) for the decimal strings that occur in object paths
IntOf ==
    ("0" :> 0) @@ ("1" :> 1) @@ ("2" :> 2) @@ ("5" :> 5)

\* key.isdigit()
isdigit(key) == key \in DOMAIN IntOf

\* A place inside a document: a sequence of steps, [key |-> k] into a mapping
\* and [idx |-> i] into a sequence (i is 1-based).
IsKeyStep(e) == "key" \in DOMAIN e

RECURSIVE GetAt(_, _)
GetAt(obj, path) ==
    IF path = <<>> THEN obj
    ELSE IF IsKeyStep(Head(path))
         THEN GetAt(obj.m[Head(path).key], Tail(path))
         ELSE GetAt(obj.s[Head(path).idx], Tail(path))

\* Is path a place of obj
RECURSIVE HasAt(_, _)
HasAt(obj, path) ==
    IF path = <<>> THEN TRUE
    ELSE IF IsKeyStep(Head(path))
         THEN Has(obj, Head(path).key) /\ HasAt(obj.m[Head(path).key], Tail(path))
         ELSE IsSeq(obj) /\ Head(path).idx <= Len(obj.s)
                /\ HasAt(obj.s[Head(path).idx], Tail(path))

RECURSIVE SetAt(_, _, _)
SetAt(obj, path, val) ==
    IF path = <<>> THEN val
    ELSE IF IsKeyStep(Head(path))
         THEN YMap([obj.m EXCEPT ![Head(path).key] = SetAt(@, Tail(path), val)])
         ELSE YSeq([obj.s EXCEPT ![Head(path).idx] = SetAt(@, Tail(path), val)])

\* Python: key in obj, for a string obj (substring test).  No string of the
\* documents properly contains a path key, so the test is equality.
InStr(key, str) == key = str

\* The one-character string that indexing a string yields; it is a new object,
\* not a place of the document (detached).
CharOf(str) == YStr("c")

WalkRaise == [ok |-> FALSE, path |-> <<>>, detached |-> FALSE, obj |-> YNull]

\* Lines 283-289: for key in keys: ... obj = obj[key].  A numeric key is always
\* used as an index (obj[int(key)]); a non-numeric key that is not in obj is
\* skipped.  The result is the place reached, or WalkRaise when obj[key] or
\* "key not in obj" raises (KeyError, IndexError, TypeError).
walk_step(obj, key) ==
    CASE key = "" -> "skip"
      [] isdigit(key) /\ IsSeq(obj) /\ IntOf[key] < Len(obj.s) -> "index"
      [] isdigit(key) /\ IsStr(obj) /\ IntOf[key] < Len(obj.v) -> "char"
      [] isdigit(key) -> "raise"
      [] IsMap(obj) /\ key \in DOMAIN obj.m -> "key"
      [] IsMap(obj) -> "skip"
      [] IsSeq(obj) /\ ~InList(obj, key) -> "skip"
      [] IsStr(obj) /\ ~InStr(key, obj.v) -> "skip"
      [] OTHER -> "raise"

RECURSIVE walk(_, _, _, _)
walk(obj, keys, path, detached) ==
    IF keys = <<>>
    THEN [ok |-> TRUE, path |-> path, detached |-> detached, obj |-> obj]
    ELSE LET key == Head(keys)
             step == walk_step(obj, key)
         IN  CASE step = "skip" -> walk(obj, Tail(keys), path, detached)
               [] step = "key" ->
                    walk(obj.m[key], Tail(keys), Append(path, [key |-> key]), detached)
               [] step = "index" ->
                    walk(obj.s[IntOf[key] + 1], Tail(keys),
                         Append(path, [idx |-> IntOf[key] + 1]), detached)
               [] step = "char" -> walk(CharOf(obj.v), Tail(keys), path, TRUE)
               [] OTHER -> WalkRaise

---------------------------------------------------------------------------
(* Mutation functions.  Each takes the object reached by the walk and gives *)
(* the object as the function leaves it, Err when the function raises       *)
(* before changing anything, or ErrWith(o) when it raises after changing    *)
(* the object to o.                                                         *)

ErrWith(o) == [t |-> "error", partial |-> o]

\* "key" not in obj or obj[key] is None or not obj[key]
Unset(obj, key) == ~Has(obj, key) \/ ~Truthy(Get(obj, key))

\* "key" in obj and obj[key] is not None and obj[key]
IsSet(obj, key) == Has(obj, key) /\ Truthy(Get(obj, key))

\* obj["resources"][part][name] = value, creating obj["resources"][part] when
\* it is absent, None or empty
SetResource(obj, part, name, value) ==
    LET resources == Get(obj, "resources")
    IN  IF Unset(resources, part)
        THEN Put(obj, "resources", Put(resources, part, Map1(name, value)))
        ELSE Put(obj, "resources", Put(resources, part, Put(Get(resources, part), name, value)))

\* value = obj["resources"][part][name] when that is set, else value
SiblingValue(obj, part, name, value) ==
    LET resources == Get(obj, "resources")
    IN  IF IsSet(resources, part) /\ Has(Get(resources, part), name)
        THEN Get(Get(resources, part), name)
        ELSE value

DefaultMemory_CopiedFromCpu == YStr("250m")

DefaultMemory == YStr("128Mi")
DefaultCpu == YStr("250m")

\* The four setters set_cpu_limit, set_cpu_request, set_memory_limit and
\* set_memory_request have one shape: the block (part) and the resource (name)
\* they set, the sibling block they read the value from (other), and the three
\* setters they call, in this order, after creating obj["resources"]; the
\* first of the three is called with value, the other two with their default.
Setter ==
    [set_cpu_limit |->
        [part |-> "limits", name |-> "cpu", other |-> "requests",
         calls |-> <<"set_cpu_request", "set_memory_limit", "set_memory_request">>],
     set_cpu_request |->
        [part |-> "requests", name |-> "cpu", other |-> "limits",
         calls |-> <<"set_cpu_limit", "set_memory_limit", "set_memory_request">>],
     set_memory_limit |->
        [part |-> "limits", name |-> "memory", other |-> "requests",
         calls |-> <<"set_memory_request", "set_cpu_limit", "set_cpu_request">>],
     set_memory_request |->
        [part |-> "requests", name |-> "memory", other |-> "limits",
         calls |-> <<"set_memory_limit", "set_cpu_limit", "set_cpu_request">>]]

\* The default of the value parameter of a setter
DefaultOf(setter) == IF Setter[setter].name = "cpu" THEN DefaultCpu ELSE DefaultMemory

\* The body of a setter; the setters call each other, so the recursion is
\* over the name of the setter
RECURSIVE set_resource(_, _, _)
set_resource(setter, obj, value) ==
    IF ~IsMap(obj) THEN Err
    ELSE IF ~Unset(obj, "resources") /\ ~IsMap(Get(obj, "resources")) THEN Err
    ELSE LET d == Setter[setter]
             o1 == IF Unset(obj, "resources")
                   THEN set_resource(d.calls[3],
                            set_resource(d.calls[2],
                                set_resource(d.calls[1],
                                    Put(obj, "resources", Map1(d.part, Map1(d.name, value))),
                                    value),
                                DefaultOf(d.calls[2])),
                            DefaultOf(d.calls[3]))
                   ELSE obj
         IN  SetResource(o1, d.part, d.name, SiblingValue(o1, d.other, d.name, value))

set_cpu_limit(obj, value) == set_resource("set_cpu_limit", obj, value)

set_cpu_request(obj, value) == set_resource("set_cpu_request", obj, value)

set_memory_limit(obj, value) == set_resource("set_memory_limit", obj, value)

set_memory_request(obj, value) == set_resource("set_memory_request", obj, value)

\* set_capabilities(obj, add, drop); add and drop are "" (the defaults) or lists
set_capabilities_KeepAdd(obj, add, drop) ==
    IF ~Has(obj, "image") THEN obj
    ELSE LET drop1 == IF ~Truthy(drop) THEN StrList(<<"ALL">>) ELSE drop
             sc == IF Unset(obj, "securityContext") THEN EmptyMap ELSE Get(obj, "securityContext")
             old == IF Unset(sc, "capabilities") THEN EmptyMap ELSE Get(sc, "capabilities")
             caps0 == Put(old, "drop", drop1)
             caps == IF Truthy(add) THEN Put(caps0, "add", add) ELSE caps0
         IN  Put(obj, "securityContext", Put(sc, "capabilities", caps))

set_capabilities(obj, add, drop) ==
    CASE obj.t \in {"null", "int"} -> Err
      [] IsStr(obj) -> IF InStr("image", obj.v) THEN Err ELSE obj
      [] IsSeq(obj) -> IF InList(obj, "image") THEN Err ELSE obj
      [] ~Has(obj, "image") -> obj
      [] OTHER ->
          LET drop1 == IF ~Truthy(drop) THEN StrList(<<"ALL">>) ELSE drop
              \* lines 409-416
              o1 == IF Unset(obj, "securityContext")
                    THEN Put(obj, "securityContext", Map1("capabilities", Map1("drop", drop1)))
                    ELSE obj
              sc == Get(o1, "securityContext")
              \* lines 430-436: the capabilities mapping is replaced
              caps0 == Map1("drop", drop1)
              caps == IF Truthy(add) THEN Put(caps0, "add", add) ELSE caps0
          IN  IF ~IsMap(sc) THEN Err
              ELSE Put(o1, "securityContext", Put(sc, "capabilities", caps))

\* set_secrets_as_files(obj, secret_name="my-secret", volume_name="secret-volume")
SecretVolume ==
    YMap([name |-> YStr("secret-volume"),
          secret |-> YMap([secretName |-> YStr("my-secret")])])

SecretMount ==
    YMap([name |-> YStr("secret-volume"), readOnly |-> YBool(TRUE),
          mountPath |-> YStr("/etc/secret-volume")])

\* obj[key] = [item] when obj[key] is unset, obj[key].append(item) otherwise
\* (lines 1385-1399 and 1414-1426)
AppendTo(obj, key, item) ==
    IF Unset(obj, key) THEN Put(obj, key, YSeq(<<item>>))
    ELSE Put(obj, key, YSeq(Append(Get(obj, key).s, item)))

\* [env_var for env_var in env if 'valueFrom' not in env_var]
RECURSIVE WithoutValueFrom(_)
WithoutValueFrom(env) ==
    IF env = <<>> THEN <<>>
    ELSE IF Has(Head(env), "valueFrom") THEN WithoutValueFrom(Tail(env))
         ELSE <<Head(env)>> \o WithoutValueFrom(Tail(env))

\* lines 1402-1431: one iteration of the loop over obj["containers"]
SecretContainerRaises(container) ==
    \/ ~IsMap(container)
    \/ IsSet(container, "env") /\ ~IsSeq(Get(container, "env"))
    \/ IsSet(container, "volumeMounts") /\ ~IsSeq(Get(container, "volumeMounts"))

SecretContainer(container) ==
    LET c1 == IF Has(container, "envFrom") THEN Del(container, "envFrom") ELSE container
        c2 == IF IsSet(c1, "env")
              THEN Put(c1, "env", YSeq(WithoutValueFrom(Get(c1, "env").s)))
              ELSE c1
        c3 == AppendTo(c2, "volumeMounts", SecretMount)
    IN  IF Has(c3, "env") /\ IsNull(Get(c3, "env")) THEN Del(c3, "env") ELSE c3

set_secrets_as_files(obj) ==
    IF ~IsMap(obj) THEN Err
    ELSE IF IsSet(obj, "volumes") /\ ~IsSeq(Get(obj, "volumes")) THEN Err
    ELSE LET o1 == AppendTo(obj, "volumes", SecretVolume)
         IN  IF ~Has(o1, "containers") \/ ~IsSeq(Get(o1, "containers")) THEN ErrWith(o1)
             ELSE LET containers == Get(o1, "containers").s
                      bad == {k \in 1..Len(containers) : SecretContainerRaises(containers[k])}
                  IN  IF bad = {}
                      THEN Put(o1, "containers",
                               YSeq([k \in 1..Len(containers) |->
                                        SecretContainer(containers[k])]))
                      ELSE ErrWith(o1)

\* set_pod_deployment(obj)
set_pod_deployment(obj) ==
    IF IsMap(obj) THEN Put(obj, "kind", YStr("Deployment")) ELSE Err

\* remove_cluster_admin(obj)
remove_cluster_admin(obj) ==
    IF Has(obj, "roleRef") /\ IsMap(Get(obj, "roleRef"))
    THEN Put(obj, "roleRef", Put(Get(obj, "roleRef"), "name", YStr("view")))
    ELSE Err

\* A sequence of mapping keys as a place
Keys(ks) == [k \in 1..Len(ks) |-> [key |-> ks[k]]]

\* The Pod spec that set_service_account and set_service_account_name rebind
\* obj to (lines 1617-1622): obj["spec"], obj["spec"]["template"]["spec"] or
\* obj["spec"]["jobTemplate"]["spec"]["template"]["spec"]; "raise" when a
\* membership test or a subscript on the way raises
PodSpecPlace(obj) ==
    IF ~Has(obj, "spec") THEN [ok |-> TRUE, path |-> <<>>]
    ELSE LET spec == Get(obj, "spec")
         IN  IF IsNull(spec) \/ spec.t \in {"int", "bool"} THEN [ok |-> FALSE, path |-> <<>>]
             ELSE IF Has(spec, "template")
                  THEN [ok |-> TRUE, path |-> Keys(<<"spec", "template", "spec">>)]
             ELSE IF Has(spec, "jobTemplate")
                  THEN [ok |-> TRUE,
                        path |-> Keys(<<"spec", "jobTemplate", "spec", "template", "spec">>)]
             ELSE [ok |-> TRUE, path |-> Keys(<<"spec">>)]

DefaultServiceAccount == YStr("SAtest")

\* set_service_account_name(obj, value="SAtest"), reading the global
\* service_account_idx; the caller adds one to the global when the function
\* returns (line 1628)
set_service_account_name(obj, value, idx) ==
    LET place == PodSpecPlace(obj).path
    IN  IF ~IsMap(obj) \/ ~PodSpecPlace(obj).ok THEN Err
        ELSE IF ~HasAt(obj, place) \/ ~IsMap(GetAt(obj, place)) \/ ~IsStr(value) THEN Err
        ELSE SetAt(obj, place,
                   Put(Put(GetAt(obj, place),
                           "serviceAccountName", YStr(value.v \o ToString(idx))),
                       "automountServiceAccountToken", YBool(FALSE)))

\* todo(arg1="", arg2="", arg3="")
todo(obj) == obj

---------------------------------------------------------------------------
(* set_cluster_roles *)

unsafe_verbs ==
    {"create", "update", "patch", "escalate", "approve",
     "list", "watch", "delete", "impersonate"}

\* [verb for verb in verbs if verb not in unsafe_verbs]
RECURSIVE SafeVerbs(_)
SafeVerbs(s) ==
    IF s = <<>> THEN <<>>
    ELSE IF IsStr(Head(s)) /\ Head(s).v \in unsafe_verbs
         THEN SafeVerbs(Tail(s))
         ELSE <<Head(s)>> \o SafeVerbs(Tail(s))

\* lines 1532-1538: the apiGroups of one rule
RuleApiGroups(rule) ==
    IF Has(rule, "apiGroups")
       /\ Get(rule, "apiGroups") \in {YNull, StrList(<<"*">>), StrList(<<"">>)}
    THEN Put(rule, "apiGroups", StrList(<<"v1">>))
    ELSE rule

\* lines 1540-1545: the resources of one rule
RuleResources(rule) ==
    IF Has(rule, "resources") /\ Get(rule, "resources") \in {YNull, StrList(<<"*">>)}
    THEN Put(rule, "resources", StrList(<<"pods">>))
    ELSE rule

\* lines 1547-1557: is the index of the rule put in delete_idx
RuleDeleted(rule) ==
    \/ /\ Has(rule, "resources")
       /\ \/ InList(Get(rule, "resources"), "pods/exec")
          \/ InList(Get(rule, "resources"), "secrets")
          \/ InList(Get(rule, "resources"), "events")
    \/ Has(rule, "nonResourceURLs")

\* lines 1559-1569: the verbs of one rule; the list comprehension raises
\* TypeError when verbs is None
RuleVerbsRaises(rule) ==
    Has(rule, "verbs") /\ Get(rule, "verbs") # StrList(<<"*">>) /\ ~IsSeq(Get(rule, "verbs"))

RuleVerbs(rule) ==
    IF ~Has(rule, "verbs") THEN rule
    ELSE IF Get(rule, "verbs") = StrList(<<"*">>)
         THEN Put(rule, "verbs", StrList(<<"get">>))
         ELSE LET kept == SafeVerbs(Get(rule, "verbs").s)
              IN  IF kept = <<>> \/ kept = <<YStr("")>>
                  THEN Put(rule, "verbs", StrList(<<"get">>))
                  ELSE Put(rule, "verbs", YSeq(kept))

\* One iteration of the loop over obj["rules"]: a rule that is no mapping
\* raises at the first "in" test, before any change
RuleRaises(rule) == ~IsMap(rule) \/ RuleVerbsRaises(RuleResources(RuleApiGroups(rule)))

FixRule(rule) == RuleVerbs(RuleResources(RuleApiGroups(rule)))

\* The rule as the iteration that raises leaves it
PartRule(rule) == IF IsMap(rule) THEN RuleResources(RuleApiGroups(rule)) ELSE rule

RECURSIVE KeptRules(_)
KeptRules(rules) ==
    IF rules = <<>> THEN <<>>
    ELSE IF RuleDeleted(RuleResources(RuleApiGroups(Head(rules))))
         THEN KeptRules(Tail(rules))
         ELSE <<FixRule(Head(rules))>> \o KeptRules(Tail(rules))

DefaultRules ==
    YSeq(<<YMap([apiGroups |-> StrList(<<"v1">>),
                 resources |-> StrList(<<"pods">>),
                 verbs |-> StrList(<<"get">>)])>>)

set_cluster_roles(obj) ==
    IF ~IsMap(obj) THEN Err
    ELSE IF Unset(obj, "rules") THEN Put(obj, "rules", DefaultRules)
    ELSE IF ~IsSeq(Get(obj, "rules")) THEN Err
    ELSE LET rules == Get(obj, "rules").s
             bad == {i \in 1..Len(rules) : RuleRaises(rules[i])}
         IN  IF bad = {}
             THEN Put(obj, "rules", YSeq(KeptRules(rules)))
             ELSE LET k == CHOOSE i \in bad : \A j \in bad : i <= j
                  IN  ErrWith(Put(obj, "rules",
                          YSeq([i \in 1..Len(rules) |->
                                   IF i < k THEN FixRule(rules[i])
                                   ELSE IF i = k THEN PartRule(rules[i])
                                   ELSE rules[i]])))

---------------------------------------------------------------------------
(* Companion documents *)

\* lines 721-724 and 785-788: the namespace of the first companion
CompanionNamespace(obj) ==
    IF Has(Get(obj, "metadata"), "namespace")
       /\ Get(Get(obj, "metadata"), "namespace") # YStr("default")
    THEN Get(Get(obj, "metadata"), "namespace")
    ELSE YStr("test-ns")

LimitRangeDoc(namespace) ==
    YMap([apiVersion |-> YStr("v1"),
          kind |-> YStr("LimitRange"),
          metadata |-> YMap([name |-> YStr("cpu-min-max-demo-lr"), namespace |-> namespace]),
          spec |-> YMap([limits |-> YSeq(<<
              YMap([max |-> YMap([cpu |-> YStr("800m")]),
                    min |-> YMap([cpu |-> YStr("250m")]),
                    type |-> YStr("Container")])>>)])])

\* set_limit_range(obj): the pair (limit_range1, limit_range2), or Err when
\* obj["metadata"] raises
set_limit_range(obj) ==
    IF ~Has(obj, "metadata") \/ ~IsMap(Get(obj, "metadata")) THEN Err
    ELSE YSeq(<<LimitRangeDoc(CompanionNamespace(obj)), LimitRangeDoc(YStr("default"))>>)

ResourceQuotaDoc(namespace) ==
    YMap([apiVersion |-> YStr("v1"),
          kind |-> YStr("ResourceQuota"),
          metadata |-> YMap([name |-> YStr("pods-high"), namespace |-> namespace]),
          spec |-> YMap([
              hard |-> YMap([cpu |-> YStr("1000"), memory |-> YStr("200Gi"),
                             pods |-> YStr("10")]),
              scopeSelector |-> YMap([matchExpressions |-> YSeq(<<
                  YMap([operator |-> YStr("In"),
                        scopeName |-> YStr("PriorityClass"),
                        values |-> StrList(<<"high">>)])>>)])])])

\* set_resource_quota(obj)
set_resource_quota(obj) ==
    IF ~Has(obj, "metadata") \/ ~IsMap(Get(obj, "metadata")) THEN Err
    ELSE YSeq(<<ResourceQuotaDoc(CompanionNamespace(obj)), ResourceQuotaDoc(YStr("default"))>>)

\* set_pod_disruption_budget(obj, app_name="test-pdb"): the returned document;
\* the function also sets obj["app"] (PdbTarget)
set_pod_disruption_budget(app_name) ==
    YMap([apiVersion |-> YStr("policy/v1"),
          kind |-> YStr("PodDisruptionBudget"),
          metadata |-> YMap([name |-> YStr("myapp-pdb")]),
          spec |-> YMap([
              maxUnavailable |-> YInt(1),
              selector |-> YMap([matchLabels |-> YMap([app |-> YStr(app_name)])])])])

\* line 1717: obj["app"] = app_name
PdbTarget(obj, app_name) == IF IsMap(obj) THEN Put(obj, "app", YStr(app_name)) ELSE Err

\* set_net_policy(name="test-network-policy"): <<net_policy1, net_policy2>>
set_net_policy(name) ==
    << YMap([apiVersion |-> YStr("networking.k8s.io/v1"),
             kind |-> YStr("NetworkPolicy"),
             metadata |-> YMap([name |-> YStr(name)]),
             spec |-> YMap([podSelector |-> EmptyMap,
                            ingress |-> YSeq(<<EmptyMap>>),
                            policyTypes |-> StrList(<<"Ingress">>)])]),
       YMap([apiVersion |-> YStr("networking.k8s.io/v1"),
             kind |-> YStr("NetworkPolicy"),
             metadata |-> YMap([name |-> YStr(name), namespace |-> YStr("test-ns")]),
             spec |-> YMap([
                 podSelector |-> EmptyMap,
                 policyTypes |-> StrList(<<"Ingress", "Egress">>),
                 ingress |-> YSeq(<<YMap([
                     from |-> YSeq(<<
                         YMap([ipBlock |-> YMap([cidr |-> YStr("172.17.0.0/16"),
                                                 except |-> StrList(<<"172.17.1.0/24">>)])]),
                         YMap([namespaceSelector |->
                                  YMap([matchLabels |-> YMap([project |-> YStr("myproject")])])]),
                         YMap([podSelector |->
                                  YMap([matchLabels |-> YMap([role |-> YStr("frontend")])])])>>),
                     ports |-> YSeq(<<YMap([protocol |-> YStr("TCP"), port |-> YInt(6379)])>>)])>>),
                 egress |-> YSeq(<<YMap([
                     to |-> YSeq(<<YMap([ipBlock |-> YMap([cidr |-> YStr("10.0.0.0/24")])])>>),
                     ports |-> YSeq(<<YMap([protocol |-> YStr("TCP"), port |-> YInt(5978)])>>)])>>)])]) >>

---------------------------------------------------------------------------
(* Dispatcher *)

\* FuncLookupClass._LOOKUP: check id -> name of the mutation function
_LOOKUP ==
    ("check_0" :> "set_img_tag") @@ ("check_1" :> "set_memory_request") @@
    ("check_2" :> "set_memory_limit") @@ ("check_3" :> "set_equal_requests") @@
    ("check_4" :> "set_cpu_request") @@ ("check_5" :> "set_cpu_limit") @@
    ("check_6" :> "set_equal_requests") @@ ("check_7" :> "set_liveness_probe") @@
    ("check_8" :> "set_readiness_probe") @@ ("check_9" :> "set_img_digest") @@
    ("check_10" :> "set_pid_ns") @@ ("check_11" :> "set_ipc_ns") @@
    ("check_12" :> "set_net_ns") @@ ("check_13" :> "set_uid") @@
    ("check_14" :> "set_root") @@ ("check_15" :> "remove_docker_socket") @@
    ("check_16" :> "todo") @@ ("check_17" :> "todo") @@
    ("check_18" :> "todo") @@ ("check_19" :> "todo") @@
    ("check_20" :> "todo") @@ ("check_21" :> "set_privileged") @@
    ("check_22" :> "set_priv_esc") @@ ("check_23" :> "set_capabilities") @@
    ("check_24" :> "set_capabilities") @@ ("check_25" :> "set_img_pull_policy") @@
    ("check_26" :> "set_k8s_ns") @@ ("check_27" :> "set_read_only") @@
    ("check_28" :> "set_root") @@ ("check_29" :> "set_host_port") @@
    ("check_30" :> "set_security_context") @@ ("check_31" :> "set_seccomp") @@
    ("check_32" :> "set_apparmor") @@ ("check_33" :> "set_secrets_as_files") @@
    ("check_34" :> "set_capabilities") @@ ("check_35" :> "set_service_account") @@
    ("check_36" :> "set_service_account") @@ ("check_37" :> "set_service_account_name") @@
    ("check_38" :> "todo") @@ ("check_39" :> "todo") @@
    ("check_40" :> "set_net_policy") @@ ("check_41" :> "todo") @@
    ("check_42" :> "todo") @@ ("check_43" :> "set_label_values") @@
    ("check_44" :> "todo") @@ ("check_45" :> "set_replicas") @@
    ("check_46" :> "todo") @@ ("check_47" :> "remove_host_path") @@
    ("check_48" :> "set_limit_range") @@ ("check_49" :> "set_resource_quota") @@
    ("check_50" :> "set_subpath") @@ ("check_52" :> "remove_storage") @@
    ("check_53" :> "set_statefulset_service_name") @@ ("check_54" :> "set_cluster_roles") @@
    ("check_55" :> "set_volume_mounts") @@ ("check_56" :> "remove_nodeport") @@
    ("check_57" :> "assign_service") @@ ("check_58" :> "assign_service_account") @@
    ("check_59" :> "remove_sa_subjects") @@ ("check_60" :> "set_pod_disruption_budget") @@
    ("check_62" :> "todo") @@ ("check_63" :> "set_deadline_seconds") @@
    ("check_64" :> "set_pod_deployment") @@ ("check_65" :> "remove_cluster_admin") @@
    ("check_66" :> "set_ingress_host") @@ ("check_67" :> "set_pdb_max_unavailable") @@
    ("check_68" :> "remove_ssh_port")

\* FuncLookupClass.get_value(key): None (here "None") for a key that is absent
get_value_TodoForAbsent(key) == IF key \in DOMAIN _LOOKUP THEN _LOOKUP[key] ELSE "todo"

get_value(key) == IF key \in DOMAIN _LOOKUP THEN _LOOKUP[key] ELSE "None"

no_path_checks_Without65 ==
    {"check_31", "check_29", "check_26", "check_45", "check_54", "check_56",
     "check_36", "check_12", "check_35", "check_37", "check_47", "check_63",
     "check_64", "check_67", "check_13"}

no_path_checks ==
    {"check_31", "check_29", "check_26", "check_45", "check_54", "check_56",
     "check_36", "check_12", "check_35", "check_37", "check_47", "check_63",
     "check_64", "check_65", "check_67", "check_13"}

(* Container images: set_img_tag, set_img_digest *)

\* The image texts of the model: a repository name, optionally followed by
\* ":" and a tag, optionally followed by "@" and a digest.
ImageNames == {"nginx", "busybox", "bitnami/nginx"}

PinnedTag == "1.19"
FoundTag == "1.25"
FoundDigest == "sha256:abc"

TagTexts == {PinnedTag, FoundTag}
DigestTexts == {"", FoundDigest}

\* What the string tests of the two functions see in an image text:
\* colons is the number of ":" (image.split(":") has colons + 1 parts), at is
\* '"@" in image', name is the part before the first ":".
ImageForms ==
    {[text |-> n, name |-> n, colons |-> 0, at |-> FALSE] : n \in ImageNames}
    \cup
    {[text |-> n \o ":" \o t, name |-> n, colons |-> 1, at |-> FALSE] :
        n \in ImageNames, t \in TagTexts}
    \cup
    {[text |-> n \o ":" \o t \o "@" \o d, name |-> n,
      colons |-> IF d = "" THEN 1 ELSE 2, at |-> TRUE] :
        n \in ImageNames, t \in TagTexts, d \in DigestTexts}

FormOf(image) == CHOOSE f \in ImageForms : f.text = image

\* image_name.split("/")[-1]
LastSegment(name) == IF name = "bitnami/nginx" THEN "nginx" ELSE name

\* What Docker Hub answers during the run.  get_docker_img_tag returns the
\* first tag that is not "latest", None when there is none, "" when the
\* request fails with an HTTP status (HTTPError is the only exception
\* caught); a connection error or a timeout of requests.get is not an
\* HTTPError and propagates (Err).  get_docker_img_digest likewise: the
\* digest, None when no entry has the tag, "" on HTTPError, or an exception.
LookupOutcomes(found) == {YStr(found), YStr(""), YNull, Err}

Reachable == [tag |-> YStr(FoundTag), digest |-> YStr(FoundDigest)]

Registries ==
    {[tag |-> t, digest |-> YStr(FoundDigest)] :
        t \in LookupOutcomes(FoundTag) \ {YStr(FoundTag)}}
    \cup
    {[tag |-> YStr(FoundTag), digest |-> d] : d \in LookupOutcomes(FoundDigest)}

get_docker_img_tag(image_name) == registry.tag

get_docker_img_digest(image_name, image_tag) == registry.digest

\* set_img_tag(obj): obj["image"] raises for an obj without the key; an image
\* with ":" is returned as it is; otherwise the tag looked up is appended when
\* it is truthy.
set_img_tag(obj) ==
    IF ~IsMap(obj) \/ ~Has(obj, "image") THEN Err
    ELSE IF ~IsStr(Get(obj, "image")) THEN Err
    ELSE IF FormOf(Get(obj, "image").v).colons > 0 THEN obj
    ELSE LET image_tag == get_docker_img_tag(Get(obj, "image").v)
         IN  IF IsErr(image_tag) THEN Err
             ELSE IF Truthy(image_tag)
                  THEN Put(obj, "image",
                           YStr(Get(obj, "image").v \o ":" \o image_tag.v))
                  ELSE obj

\* set_img_digest(obj): an obj without "image" and an image with "@" are
\* returned as they are.  The name is the part before ":" (the unpacking of
\* split(":") raises ValueError for more than one ":"); the tag is looked up
\* again, and when it is truthy the image becomes
\* name + ":" + tag + "@" + digest, which raises TypeError for a None digest.
set_img_digest(obj) ==
    IF ~(IsMap(obj) \/ IsSeq(obj) \/ IsStr(obj)) THEN Err
    ELSE IF ~IsMap(obj) \/ ~Has(obj, "image") THEN obj
    ELSE IF ~IsStr(Get(obj, "image")) THEN Err
    ELSE LET form == FormOf(Get(obj, "image").v)
         IN  IF form.at THEN obj
             ELSE IF form.colons > 1 THEN Err
             ELSE LET image_name == form.name
                      image_tag == get_docker_img_tag(LastSegment(image_name))
                  IN  IF IsErr(image_tag) THEN Err
                      ELSE IF ~Truthy(image_tag) THEN obj
                      ELSE LET image_digest ==
                                   get_docker_img_digest(LastSegment(image_name),
                                                         image_tag.v)
                           IN  IF IsErr(image_digest) \/ ~IsStr(image_digest) THEN Err
                               ELSE Put(obj, "image",
                                        YStr(image_name \o ":" \o image_tag.v
                                             \o "@" \o image_digest.v))

(* Seccomp profile: set_seccomp *)

profile_name == "seccomp.security.alpha.kubernetes.io/pod"

\* {profile_name: "runtime/default"}
ProfileAnnotation == Put(YMap(<<>>), profile_name, YStr("runtime/default"))

\* {"seccompProfile": {"type": "RuntimeDefault"}}
SeccompProfile == YMap([type |-> YStr("RuntimeDefault")])

\* The second half of set_seccomp: obj is replaced by its pod spec (spec,
\* spec.template.spec or spec.jobTemplate.spec.template.spec) and
\* securityContext.seccompProfile is set there.  A failure leaves the
\* annotation already written (ErrWith).
SetSeccompProfile(obj) ==
    LET place == PodSpecPlace(obj).path
    IN  IF ~PodSpecPlace(obj).ok THEN ErrWith(obj)
        ELSE IF ~HasAt(obj, place) \/ ~IsMap(GetAt(obj, place)) THEN ErrWith(obj)
        ELSE LET pod == GetAt(obj, place)
             IN  IF ~Has(pod, "securityContext") \/ ~Truthy(Get(pod, "securityContext"))
                 THEN SetAt(obj, place,
                            Put(pod, "securityContext",
                                YMap([seccompProfile |-> SeccompProfile])))
                 ELSE IF ~IsMap(Get(pod, "securityContext")) THEN ErrWith(obj)
                 ELSE SetAt(obj, place,
                            Put(pod, "securityContext",
                                Put(Get(pod, "securityContext"),
                                    "seccompProfile", SeccompProfile)))

set_seccomp_ProfileOnly(obj) ==
    IF ~IsMap(obj) THEN Err ELSE SetSeccompProfile(obj)

\* set_seccomp(obj): the annotation goes into obj["metadata"]["annotations"],
\* the metadata of the object the function is called on; metadata or
\* annotations that are absent, None or empty are created.
set_seccomp(obj) ==
    IF ~IsMap(obj) THEN Err
    ELSE IF ~Has(obj, "metadata") \/ ~Truthy(Get(obj, "metadata"))
         THEN SetSeccompProfile(
                  Put(obj, "metadata", YMap([annotations |-> ProfileAnnotation])))
    ELSE LET metadata == Get(obj, "metadata")
         IN  IF ~IsMap(metadata) THEN Err
             ELSE IF ~Has(metadata, "annotations") \/ ~Truthy(Get(metadata, "annotations"))
                  THEN SetSeccompProfile(
                           Put(obj, "metadata",
                               Put(metadata, "annotations", ProfileAnnotation)))
             ELSE IF ~IsMap(Get(metadata, "annotations")) THEN Err
             ELSE SetSeccompProfile(
                      Put(obj, "metadata",
                          Put(metadata, "annotations",
                              Put(Get(metadata, "annotations"),
                                  profile_name, YStr("runtime/default")))))

(* List filters: remove_host_path, set_subpath, remove_docker_socket, *)
(* remove_ssh_port.  The lists of the manifests (volumes, volumeMounts,  *)
(* ports) are lists, null or absent.                                     *)

\* [item for item in items if key not in item]; "key not in item" raises for
\* an item that is None, a number or a boolean
RECURSIVE Without(_, _)
Without(items, key) ==
    IF items = <<>> THEN <<>>
    ELSE IF Has(Head(items), key) THEN Without(Tail(items), key)
    ELSE <<Head(items)>> \o Without(Tail(items), key)

\* if listkey in obj and obj[listkey] is not None and obj[listkey]:
\*     obj[listkey] = [item for item in obj[listkey] if key not in item]
\*     if not obj[listkey]: del obj[listkey]
FilterList(obj, listkey, key) ==
    IF ~(IsMap(obj) \/ IsSeq(obj) \/ IsStr(obj)) THEN Err
    ELSE IF ~IsSet(obj, listkey) THEN obj
    ELSE IF ~IsSeq(Get(obj, listkey)) THEN Err
    ELSE IF \E i \in 1..Len(Get(obj, listkey).s) :
                ~(IsMap(Get(obj, listkey).s[i]) \/ IsSeq(Get(obj, listkey).s[i])
                    \/ IsStr(Get(obj, listkey).s[i]))
         THEN Err
    ELSE LET kept == Without(Get(obj, listkey).s, key)
         IN  IF kept = <<>> THEN Del(obj, listkey) ELSE Put(obj, listkey, YSeq(kept))

\* remove_host_path(obj, value): the descent to the pod spec, then the filter
\* of volumes on "hostPath"
remove_host_path(obj, value) ==
    LET place == PodSpecPlace(obj).path
    IN  IF ~(IsMap(obj) \/ IsSeq(obj) \/ IsStr(obj)) \/ ~PodSpecPlace(obj).ok THEN Err
        ELSE IF ~HasAt(obj, place) THEN Err
        ELSE LET pod == FilterList(GetAt(obj, place), "volumes", "hostPath")
             IN  IF IsErr(pod) THEN Err ELSE SetAt(obj, place, pod)

\* set_subpath(obj): the filter of volumeMounts on "subPath"
set_subpath(obj) == FilterList(obj, "volumeMounts", "subPath")

\* The host paths of the manifests that contain "docker.sock"
DockerSockPaths == {"/var/run/docker.sock", "/run/docker.sock"}

\* The three nested tests of remove_docker_socket on one volume
IsDockerSocket(volume) ==
    /\ Has(volume, "hostPath") /\ ~IsNull(Get(volume, "hostPath"))
    /\ Has(Get(volume, "hostPath"), "path")
    /\ ~IsNull(Get(Get(volume, "hostPath"), "path"))
    /\ Get(Get(volume, "hostPath"), "path").v \in DockerSockPaths

\* list.remove(item): without the first entry equal to item
RECURSIVE RemoveFirst(_, _)
RemoveFirst(items, item) ==
    IF items = <<>> THEN <<>>
    ELSE IF Head(items) = item THEN Tail(items)
    ELSE <<Head(items)>> \o RemoveFirst(Tail(items), item)

\* for volume in volumes: if ...: volumes.remove(volume).  The loop reads
\* volumes[i] for i = 0, 1, ... until i reaches the current length of the
\* list, which the removals shorten while the loop runs.
RECURSIVE RemoveWhileIterating(_, _)
RemoveWhileIterating(volumes, i) ==
    IF i > Len(volumes) THEN volumes
    ELSE IF IsDockerSocket(volumes[i])
         THEN RemoveWhileIterating(RemoveFirst(volumes, volumes[i]), i + 1)
         ELSE RemoveWhileIterating(volumes, i + 1)

\* remove_docker_socket(obj): the descent to the pod spec, then the loop over
\* obj["volumes"], which raises KeyError when the key is absent and TypeError
\* when it is None
remove_docker_socket(obj) ==
    LET place == PodSpecPlace(obj).path
    IN  IF ~IsMap(obj) \/ ~PodSpecPlace(obj).ok THEN Err
        ELSE IF ~HasAt(obj, place) \/ ~IsMap(GetAt(obj, place)) THEN Err
        ELSE LET pod == GetAt(obj, place)
             IN  IF ~Has(pod, "volumes") THEN Err
                 ELSE IF ~IsSeq(Get(pod, "volumes")) THEN Err
                 ELSE IF \E i \in 1..Len(Get(pod, "volumes").s) :
                            ~IsMap(Get(pod, "volumes").s[i])
                      THEN Err
                 ELSE SetAt(obj, place,
                            Put(pod, "volumes",
                                YSeq(RemoveWhileIterating(Get(pod, "volumes").s, 1))))

SshPort == 22

\* The ports that remove_ssh_port keeps: the indexes collected are popped
\* from the last to the first
RECURSIVE WithoutSshPort(_)
WithoutSshPort(ports) ==
    IF ports = <<>> THEN <<>>
    ELSE IF Has(Head(ports), "containerPort")
              /\ Get(Head(ports), "containerPort") = YInt(SshPort)
         THEN WithoutSshPort(Tail(ports))
         ELSE <<Head(ports)>> \o WithoutSshPort(Tail(ports))

\* remove_ssh_port(obj): enumerate(obj["ports"]) raises KeyError when the key
\* is absent and TypeError when it is None
remove_ssh_port(obj) ==
    IF ~IsMap(obj) \/ ~Has(obj, "ports") THEN Err
    ELSE IF ~IsSeq(Get(obj, "ports")) THEN Err
    ELSE IF \E i \in 1..Len(Get(obj, "ports").s) : ~IsMap(Get(obj, "ports").s[i]) THEN Err
    ELSE Put(obj, "ports", YSeq(WithoutSshPort(Get(obj, "ports").s)))

(* Host ports: set_host_port *)

\* set_host_port(obj): obj["spec"] raises for an object without spec; obj
\* becomes spec.template when there is one, then its spec; initContainers is
\* deleted there.
set_host_port(obj) ==
    IF ~Has(obj, "spec") THEN Err
    ELSE IF ~(IsMap(Get(obj, "spec")) \/ IsSeq(Get(obj, "spec")) \/ IsStr(Get(obj, "spec")))
    THEN Err
    ELSE LET place == IF Has(Get(obj, "spec"), "template")
                      THEN IF Has(GetAt(obj, Keys(<<"spec", "template">>)), "spec")
                           THEN Keys(<<"spec", "template", "spec">>)
                           ELSE Keys(<<"spec", "template">>)
                      ELSE Keys(<<"spec">>)
         IN  IF Has(GetAt(obj, place), "initContainers")
             THEN SetAt(obj, place, Del(GetAt(obj, place), "initContainers"))
             ELSE obj

(* Labels: set_label_values *)

\* The block that set_label_values runs twice: metadata is created when it is
\* absent or None; labels that are present and not None get the two keys;
\* otherwise labels is assigned {"app.kubernetes.io/name": "MyApp"} and then
\* {"app": "MyApp"}, and the second assignment is the one that stays.
SetLabels(obj) ==
    IF ~IsMap(obj) THEN Err
    ELSE LET metadata == IF ~Has(obj, "metadata") \/ IsNull(Get(obj, "metadata"))
                         THEN EmptyMap ELSE Get(obj, "metadata")
         IN  IF ~(IsMap(metadata) \/ IsSeq(metadata) \/ IsStr(metadata)) THEN Err
             ELSE IF Has(metadata, "labels") /\ ~IsNull(Get(metadata, "labels"))
             THEN IF ~IsMap(Get(metadata, "labels")) THEN Err
                  ELSE Put(obj, "metadata",
                           Put(metadata, "labels",
                               Put(Put(Get(metadata, "labels"),
                                       "app.kubernetes.io/name", YStr("MyApp")),
                                   "app", YStr("MyApp"))))
             ELSE IF ~IsMap(metadata) THEN Err
             ELSE Put(obj, "metadata", Put(metadata, "labels", YMap([app |-> YStr("MyApp")])))

\* set_label_values(obj): the labels of obj, then the labels of its spec, or
\* of spec.template or spec.jobTemplate.spec.template when there is one
set_label_values(obj) ==
    LET o1 == SetLabels(obj)
        place == IF ~Has(obj, "spec") THEN <<>>
                 ELSE IF Has(Get(obj, "spec"), "template") THEN Keys(<<"spec", "template">>)
                 ELSE IF Has(Get(obj, "spec"), "jobTemplate")
                 THEN Keys(<<"spec", "jobTemplate", "spec", "template">>)
                 ELSE Keys(<<"spec">>)
    IN  IF IsErr(o1) THEN Err
        ELSE IF Has(obj, "spec") /\ ~(IsMap(Get(obj, "spec")) \/ IsSeq(Get(obj, "spec"))
                                       \/ IsStr(Get(obj, "spec")))
        THEN ErrWith(o1)
        ELSE IF ~HasAt(o1, place) \/ IsErr(SetLabels(GetAt(o1, place))) THEN ErrWith(o1)
        ELSE SetAt(o1, place, SetLabels(GetAt(o1, place)))

\* process_func(obj, *args) for the value-taking convention: args is <<>> or
\* <<value>>.  A function called with more arguments than it has parameters
\* raises TypeError.
Call(process_func, obj, args) ==
    CASE process_func = "set_memory_request" ->
            set_memory_request(obj, IF args = <<>> THEN DefaultMemory ELSE args[1])
      [] process_func = "set_memory_limit" ->
            set_memory_limit(obj, IF args = <<>> THEN DefaultMemory ELSE args[1])
      [] process_func = "set_cpu_request" ->
            set_cpu_request(obj, IF args = <<>> THEN DefaultCpu ELSE args[1])
      [] process_func = "set_cpu_limit" ->
            set_cpu_limit(obj, IF args = <<>> THEN DefaultCpu ELSE args[1])
      [] process_func = "set_cluster_roles" ->
            IF args = <<>> THEN set_cluster_roles(obj) ELSE Err
      [] process_func = "remove_cluster_admin" ->
            IF args = <<>> THEN remove_cluster_admin(obj) ELSE Err
      [] process_func = "set_secrets_as_files" ->
            IF args = <<>> THEN set_secrets_as_files(obj) ELSE Err
      [] process_func = "set_pod_deployment" ->
            IF args = <<>> THEN set_pod_deployment(obj) ELSE Err
      [] process_func = "set_img_tag" ->
            IF args = <<>> THEN set_img_tag(obj) ELSE Err
      [] process_func = "set_img_digest" ->
            IF args = <<>> THEN set_img_digest(obj) ELSE Err
      [] process_func = "set_seccomp" ->
            IF args = <<>> THEN set_seccomp(obj) ELSE Err
      [] process_func = "remove_host_path" ->
            remove_host_path(obj, IF args = <<>> THEN YStr("") ELSE args[1])
      [] process_func = "set_subpath" ->
            IF args = <<>> THEN set_subpath(obj) ELSE Err
      [] process_func = "remove_docker_socket" ->
            IF args = <<>> THEN remove_docker_socket(obj) ELSE Err
      [] process_func = "remove_ssh_port" ->
            IF args = <<>> THEN remove_ssh_port(obj) ELSE Err
      [] process_func = "set_host_port" ->
            IF args = <<>> THEN set_host_port(obj) ELSE Err
      [] process_func = "set_label_values" ->
            IF args = <<>> THEN set_label_values(obj) ELSE Err
      [] process_func = "todo" -> todo(obj)


\* The state set_template reads and writes: the template list and the module
\* globals, with the outcome of the call ("returned", "raised" for an uncaught
\* exception, "looping" for a loop that does not end).
State(t, np, lr, rq, idx, out) ==
    [template |-> t, network_policy |-> np, limit_range |-> lr,
     resource_quota |-> rq, service_account_idx |-> idx, outcome |-> out]

\* The document at index i with the object at the place w replaced by r, the
\* result of a mutation function: a mutation of an object that is detached
\* from the document changes no document.
WriteBack(st, i, w, r) ==
    IF IsErr(r)
    THEN IF "partial" \in DOMAIN r /\ ~w.detached
         THEN [st EXCEPT !.outcome = "raised",
                         !.template[i] = SetAt(@, w.path, r.partial)]
         ELSE [st EXCEPT !.outcome = "raised"]
    ELSE IF w.detached THEN st
         ELSE [st EXCEPT !.template[i] = SetAt(@, w.path, r)]

AtRoot == [ok |-> TRUE, path |-> <<>>, detached |-> FALSE]

\* lines 296-304: the arguments of the capability checks
CapAdd(check) == IF "add" \in DOMAIN check THEN check.add ELSE YStr("")
CapDrop(check) ==
    IF "drop" \in DOMAIN check THEN check.drop
    ELSE IF "add" \in DOMAIN check THEN YStr("")
    ELSE StrList(<<"ALL">>)

ValueArgs(check) == IF "value" \in DOMAIN check THEN <<check.value>> ELSE <<>>

\* lines 309-313: the LimitRange pair is appended unless the flag is set
InjectLimitRange_Unguarded(st, pair) ==
    [st EXCEPT !.template = @ \o pair, !.limit_range = TRUE]

InjectLimitRange(st, pair) ==
    IF ~st.limit_range
    THEN [st EXCEPT !.template = @ \o pair, !.limit_range = TRUE]
    ELSE st

\* lines 318-322: the ResourceQuota pair is appended unless the flag is set
InjectResourceQuota(st, pair) ==
    IF ~st.resource_quota
    THEN [st EXCEPT !.template = @ \o pair, !.resource_quota = TRUE]
    ELSE st

\* lines 291-328: what set_template does with the object at place w of
\* document i, for a check that takes the generic walk
Mutate(st, i, w, check_id, check) ==
    LET process_func == get_value(check_id)
        obj == w.obj
    IN  CASE check_id = "check_60" ->
                LET r == PdbTarget(obj, "test-pdb")
                    st1 == WriteBack(st, i, w, r)
                IN  IF IsErr(r) THEN st1
                    ELSE [st1 EXCEPT !.template =
                              Append(@, set_pod_disruption_budget("test-pdb"))]
          [] check_id \in {"check_23", "check_24", "check_34"} ->
                WriteBack(st, i, w, set_capabilities(obj, CapAdd(check), CapDrop(check)))
          [] check_id = "check_48" ->
                LET pair == set_limit_range(obj)
                IN  IF IsErr(pair) THEN [st EXCEPT !.outcome = "raised"]
                    ELSE InjectLimitRange(st, pair.s)
          [] check_id = "check_49" ->
                LET pair == set_resource_quota(obj)
                IN  IF IsErr(pair) THEN [st EXCEPT !.outcome = "raised"]
                    ELSE InjectResourceQuota(st, pair.s)
          [] OTHER -> WriteBack(st, i, w, Call(process_func, obj, ValueArgs(check)))

\* lines 269-273: process_func(obj) or process_func(obj, check["value"]) on
\* the document itself; set_service_account_name also counts the global
\* service_account_idx up
NoPathCall(st, i, process_func, document, args) ==
    IF process_func = "set_service_account_name"
    THEN LET r == set_service_account_name(document,
                      IF args = <<>> THEN DefaultServiceAccount ELSE args[1],
                      st.service_account_idx)
             st1 == WriteBack(st, i, AtRoot, r)
         IN  IF IsErr(r) THEN st1
             ELSE [st1 EXCEPT !.service_account_idx = @ + 1]
    ELSE WriteBack(st, i, AtRoot, Call(process_func, document, args))

\* lines 276-281: check_33 calls process_func on the Pod spec of the
\* document, obj["spec"]["template"]["spec"] or obj["spec"]
SecretsCall(st, i, process_func, document) ==
    IF ~Has(document, "spec") THEN [st EXCEPT !.outcome = "raised"]
    ELSE LET spec == Get(document, "spec")
             place == IF Has(spec, "template")
                      THEN Keys(<<"spec", "template", "spec">>)
                      ELSE Keys(<<"spec">>)
         IN  IF IsNull(spec) \/ ~HasAt(document, place)
             THEN [st EXCEPT !.outcome = "raised"]
             ELSE WriteBack(st, i, [ok |-> TRUE, path |-> place, detached |-> FALSE],
                            Call(process_func, GetAt(document, place), <<>>))

\* line 257: check_resource_path(check["resource_path"].split("/"), document)
Resolves_Always(check, document) == TRUE

Resolves(check, document) == check_resource_path(check.resource_path, document)

\* lines 255-328: the loop "for document in template" from index i on; n0 is
\* the length of the template when the loop started.  The list iterator also
\* visits the documents appended during the loop.  A check_60 iteration on a
\* document that this loop appended appends an equal document, which is
\* visited in turn: the loop does not end.
RECURSIVE Loop(_, _, _, _, _)
Loop(st, i, n0, check_id, check) ==
    IF i > Len(st.template) THEN st
    ELSE LET document == st.template[i]
         IN  IF ~Resolves(check, document)
             THEN Loop(st, i + 1, n0, check_id, check)
             ELSE IF check_id \in no_path_checks
             THEN \* lines 269-274, then break
                  NoPathCall(st, i, get_value(check_id), document, ValueArgs(check))
             ELSE IF check_id = "check_33"
             THEN \* lines 276-280, then break
                  SecretsCall(st, i, get_value(check_id), document)
             ELSE LET w == walk(document, check.obj_path, <<>>, FALSE)
                  IN  IF ~w.ok THEN [st EXCEPT !.outcome = "raised"]
                      ELSE LET st1 == Mutate(st, i, w, check_id, check)
                           IN  IF st1.outcome = "raised" THEN st1
                               ELSE IF check_id = "check_60" /\ i > n0
                               THEN [st1 EXCEPT !.outcome = "looping"]
                               ELSE Loop(st1, i + 1, n0, check_id, check)

\* set_template(template, check_id, check)
set_template(st, check_id, check) ==
    IF DOMAIN check = {} THEN st
    ELSE IF check_id = "check_40"
    THEN [st EXCEPT !.template = @ \o set_net_policy("test-network-policy"),
                    !.network_policy = TRUE]
    ELSE IF get_value(check_id) = "None" THEN st
    ELSE Loop(st, 1, Len(st.template), check_id, check)

---------------------------------------------------------------------------
(* Manifests *)

Meta(name, namespace) ==
    IF namespace = "" THEN YMap([name |-> YStr(name)])
    ELSE YMap([name |-> YStr(name), namespace |-> YStr(namespace)])

Container(name, image) == YMap([name |-> YStr(name), image |-> YStr(image)])

\* A container with one more key
ContainerWith(name, image, key, val) == Put(Container(name, image), key, val)

PodDoc(name, namespace, containers) ==
    YMap([apiVersion |-> YStr("v1"), kind |-> YStr("Pod"),
          metadata |-> Meta(name, namespace),
          spec |-> YMap([containers |-> YSeq(containers)])])

Workload(kind, name, namespace, containers) ==
    YMap([apiVersion |-> YStr("apps/v1"), kind |-> YStr(kind),
          metadata |-> Meta(name, namespace),
          spec |-> YMap([
              replicas |-> YInt(1),
              template |-> YMap([
                  metadata |-> YMap([labels |-> YMap([app |-> YStr(name)])]),
                  spec |-> YMap([containers |-> YSeq(containers)])])])])

ClusterRoleBindingDoc ==
    YMap([apiVersion |-> YStr("rbac.authorization.k8s.io/v1"),
          kind |-> YStr("ClusterRoleBinding"),
          metadata |-> Meta("crb", ""),
          roleRef |-> YMap([apiGroup |-> YStr("rbac.authorization.k8s.io"),
                            kind |-> YStr("ClusterRole"),
                            name |-> YStr("cluster-admin")]),
          subjects |-> YSeq(<<YMap([kind |-> YStr("ServiceAccount"),
                                    name |-> YStr("sa"),
                                    namespace |-> YStr("prod")])>>)])

ClusterRoleDoc(name, rules) ==
    YMap([apiVersion |-> YStr("rbac.authorization.k8s.io/v1"),
          kind |-> YStr("ClusterRole"),
          metadata |-> Meta(name, ""),
          rules |-> rules])

\* The second container of the Deployment: it has limits and grants a capability
Sidecar ==
    YMap([name |-> YStr("sidecar"), image |-> YStr("busybox"),
          resources |-> YMap([limits |-> YMap([memory |-> YStr("256Mi")])]),
          securityContext |-> YMap([
              runAsUser |-> YInt(1000),
              capabilities |-> YMap([add |-> StrList(<<"NET_ADMIN">>)])])])

\* A manifest around a container c (the first container of the Deployment
\* nginx and the container of the Pods foo) and a rule list: no two documents
\* have the same kind, namespace and name.
Manifest(c, rules) ==
    << Workload("Deployment", "nginx", "default", <<c, Sidecar>>),
       PodDoc("foo", "", <<c>>),
       PodDoc("foo", "test-ns", <<c>>),
       PodDoc("foo", "prod", <<c>>),
       Workload("StatefulSet", "web", "kube-system", <<c>>),
       ClusterRoleBindingDoc,
       ClusterRoleDoc("cr", rules) >>

PlainContainer == Container("main", "nginx")

\* The resources blocks of the first container in the initial manifests
ResourcesVariants ==
    { ContainerWith("main", "nginx", "resources", r) :
        r \in {YNull, EmptyMap,
               YMap([limits |-> YMap([memory |-> YStr("512Mi")])]),
               YMap([requests |-> YMap([cpu |-> YStr("100m")])])} }
    \cup {PlainContainer}

\* The securityContext blocks of the first container in the initial manifests
SecurityContextVariants ==
    { ContainerWith("main", "nginx", "securityContext", sc) :
        sc \in {YNull, EmptyMap,
                YMap([runAsUser |-> YInt(1000)]),
                YMap([capabilities |-> YNull]),
                YMap([capabilities |-> YMap([add |-> StrList(<<"SYS_ADMIN">>)])]),
                YMap([runAsUser |-> YInt(1000),
                      capabilities |-> YMap([add |-> StrList(<<"NET_RAW">>),
                                             drop |-> StrList(<<"CHOWN">>)])])} }
    \cup {PlainContainer}

\* The rules a ClusterRole of the initial manifests is made of
RuleUniverse ==
    { YMap([apiGroups |-> StrList(<<"*">>), resources |-> StrList(<<"*">>),
            verbs |-> StrList(<<"*">>)]),
      YMap([apiGroups |-> StrList(<<"">>), resources |-> StrList(<<"pods", "secrets">>),
            verbs |-> StrList(<<"get", "list">>)]),
      YMap([apiGroups |-> YNull, resources |-> YNull,
            verbs |-> StrList(<<"create", "delete">>)]),
      YMap([nonResourceURLs |-> StrList(<<"/healthz">>), verbs |-> StrList(<<"get">>)]),
      YMap([apiGroups |-> StrList(<<"apps">>), resources |-> StrList(<<"deployments">>),
            verbs |-> StrList(<<"get", "watch", "use">>)]),
      YMap([resources |-> StrList(<<"pods/exec">>), verbs |-> StrList(<<"*", "get">>)]),
      YMap([resources |-> StrList(<<"events">>)]),
      YMap([resources |-> StrList(<<"configmaps">>), verbs |-> YNull]) }

RECURSIVE SeqsUpTo(_, _)
SeqsUpTo(S, n) ==
    IF n = 0 THEN {<<>>}
    ELSE LET shorter == SeqsUpTo(S, n - 1)
         IN  shorter \cup {Append(q, x) : q \in shorter, x \in S}

\* The rules values of the ClusterRole in the initial manifests
RulesVariants == {YNull} \cup {YSeq(q) : q \in SeqsUpTo(RuleUniverse, MaxRules)}

SomeRules ==
    YSeq(<<YMap([apiGroups |-> StrList(<<"">>), resources |-> StrList(<<"pods">>),
                 verbs |-> StrList(<<"get">>)])>>)

---------------------------------------------------------------------------
(* Findings.  resource_path and obj_path hold the lists that                *)
(* check["resource_path"].split("/") and check["obj_path"].split("/") give: *)
(* the empty object path "" splits into the one empty segment <<"">>.       *)

Finding(check_id, resource_path, obj_path) ==
    [check_id |-> check_id,
     check |-> [resource_path |-> resource_path, obj_path |-> obj_path]]

FindingWith(check_id, resource_path, obj_path, key, val) ==
    [check_id |-> check_id,
     check |-> (key :> val) @@ [resource_path |-> resource_path, obj_path |-> obj_path]]

FindingAddDrop(check_id, resource_path, obj_path, add, drop) ==
    [check_id |-> check_id,
     check |-> [resource_path |-> resource_path, obj_path |-> obj_path,
                add |-> add, drop |-> drop]]

NoFinding == Finding("none", <<>>, <<>>)

NoPath == <<"">>
Container0 == <<"spec", "template", "spec", "containers", "0">>
Container1 == <<"spec", "template", "spec", "containers", "1">>
Container5 == <<"spec", "template", "spec", "containers", "5">>
PodContainer0 == <<"spec", "containers", "0">>
NameChar == <<"metadata", "name", "0">>

MissingPod == <<"Pod", "default", "missing">>

\* The findings of a report that asks for companion documents
CompanionFindings ==
    {Finding("check_40", <<"Deployment", "default", "nginx">>, NoPath)}
    \cup {Finding(id, rp, NoPath) :
            id \in {"check_48", "check_49"},
            rp \in {<<"Deployment", "nginx">>, <<"Pod", "foo">>,
                    <<"Pod", "prod", "foo">>, MissingPod}}
    \cup {Finding("check_60", rp, op) :
            rp \in {<<"StatefulSet", "prod", "web">>, <<"Pod", "default", "foo">>, MissingPod},
            op \in {NoPath, <<"spec", "template">>}}
    \cup {Finding("check_60", <<"PodDisruptionBudget", "default", "myapp-pdb">>, NoPath)}
    \cup {Finding(id, <<"Deployment", "default", "nginx">>, Container0) :
            id \in {"check_16", "check_61"}}

\* The findings of a report about resource requests and limits
ResourceFindings ==
    {Finding("check_1", rp, op) :
        rp \in {<<"Deployment", "default", "nginx">>, <<"deployment", "nginx">>,
                <<"Pod", "default", "foo">>, <<"Pod", "other", "foo">>, MissingPod},
        op \in {Container0, Container5, PodContainer0, NoPath, NameChar}}
    \cup {Finding(id, <<"Deployment", "default", "nginx">>, op) :
            id \in {"check_2", "check_4", "check_5"}, op \in {Container0, Container1}}
    \cup {FindingWith("check_1", <<"Deployment", "default", "nginx">>, Container0,
                      "value", YStr("64Mi"))}
    \cup {Finding("check_16", <<"Deployment", "default", "nginx">>, op) :
            op \in {Container0, Container5, PodContainer0, NameChar}}

AddDropVariants ==
    {YSeq(<<>>), StrList(<<"NET_BIND_SERVICE">>), StrList(<<"NET_RAW", "CHOWN">>)}

\* The findings of a report about capabilities
CapabilityFindings ==
    {Finding(id, <<"Pod", "prod", "foo">>, op) :
        id \in {"check_23", "check_24", "check_34"}, op \in {PodContainer0, NoPath}}
    \cup {FindingWith("check_34", <<"Pod", "prod", "foo">>, PodContainer0, key, val) :
            key \in {"add", "drop"}, val \in AddDropVariants}
    \cup {FindingAddDrop("check_34", <<"Pod", "prod", "foo">>, PodContainer0, add, drop) :
            add \in AddDropVariants, drop \in AddDropVariants}
    \cup {Finding("check_34", MissingPod, PodContainer0)}

\* The findings of a report about RBAC rules
RbacFindings ==
    {Finding("check_54", rp, op) :
        rp \in {<<"ClusterRole", "cr">>, <<"clusterrole", "default", "cr">>,
                <<"ClusterRole", "missing">>},
        op \in {NoPath, <<"rules", "0">>}}

\* The findings of a report about cluster-admin bindings
AdminFindings ==
    {Finding("check_65", rp, op) :
        rp \in {<<"ClusterRoleBinding", "crb">>, <<"ClusterRoleBinding", "default", "crb">>,
                <<"ClusterRoleBinding", "missing">>, <<"ClusterRole", "cr">>},
        op \in {NoPath, <<"roleRef", "name">>, <<"subjects", "5">>}}
    \cup {Finding(id, <<"ClusterRoleBinding", "crb">>, NoPath) : id \in {"check_51", "check_61"}}

\* The findings that assign a ServiceAccount name with a value, as KICS
\* builds them ("test-SA" + str(jdx))
NamedAccountFindings ==
    {FindingWith("check_37", rp, NoPath, "value", YStr(v)) :
        rp \in {<<"Deployment", "default", "nginx">>, <<"StatefulSet", "kube-system", "web">>},
        v \in {"test-SA1", "test-SA11"}}

\* The findings of a report about ServiceAccount names
AccountFindings ==
    NamedAccountFindings
    \cup {Finding("check_37", rp, NoPath) :
            rp \in {<<"Deployment", "default", "nginx">>, <<"Pod", "prod", "foo">>,
                    <<"ClusterRole", "cr">>, MissingPod}}

\* A container that reads secrets from its environment
EnvContainer ==
    YMap([name |-> YStr("main"), image |-> YStr("nginx"),
          envFrom |-> YSeq(<<YMap([secretRef |-> YMap([name |-> YStr("creds")])])>>),
          env |-> YSeq(<<
              YMap([name |-> YStr("PASSWORD"),
                    valueFrom |-> YMap([secretKeyRef |->
                        YMap([name |-> YStr("creds"), key |-> YStr("password")])])]),
              YMap([name |-> YStr("MODE"), value |-> YStr("prod")])>>)])

\* The findings of a report about Pods and workloads
WorkloadFindings ==
    {Finding("check_33", rp, op) :
        rp \in {<<"Pod", "default", "foo">>, <<"Deployment", "default", "nginx">>,
                <<"ClusterRole", "cr">>},
        op \in {NoPath, PodContainer0}}
    \cup
    {Finding("check_64", rp, NoPath) :
        rp \in {<<"Pod", "default", "foo">>, <<"Pod", "foo", "bar">>, MissingPod}}
    \cup {Finding("check_1", rp, PodContainer0) :
            rp \in {<<"Pod", "default", "foo">>, <<"Pod", "prod", "foo">>}}

Reports ==
    {"companions", "resources", "capabilities", "rbac", "admin", "accounts", "workloads",
     "images", "seccomp", "volumes"}

\* Findings of the image checks, on the first and the second container of
\* the Deployment and on the container of the Pod
ImageFindings ==
    {Finding(c, <<"Deployment", "default", "nginx">>, op) :
        c \in {"check_0", "check_9"},
        op \in {<<"spec", "template", "spec", "containers", "0">>,
                <<"spec", "template", "spec", "containers", "1">>}}
    \cup
    {Finding(c, <<"Pod", "default", "foo">>, PodContainer0) : c \in {"check_0", "check_9"}}

\* The first container with each form of image
ImageVariants ==
    {Container("main", "nginx"), Container("main", "bitnami/nginx:1.19"),
     Container("main", "nginx:1.19@sha256:abc")}

\* The registry answers of each family: only the image checks ask the registry
RegistriesOf(r) == IF r = "images" THEN Registries ELSE {Reachable}

\* check_31 findings on the two templated workloads and on a Pod, without an
\* obj_path and with the path of a container
SeccompFindings ==
    {Finding("check_31", rp, op) :
        rp \in {<<"Deployment", "default", "nginx">>,
                <<"StatefulSet", "kube-system", "web">>},
        op \in {NoPath, <<"spec", "template", "spec", "containers", "0">>,
                <<"spec", "template", "spec", "containers", "1">>}}
    \cup
    {Finding("check_31", <<"Pod", "default", "foo">>, op) : op \in {NoPath, PodContainer0}}
    \cup
    {Finding("check_43", rp, NoPath) :
        rp \in {<<"Deployment", "default", "nginx">>, <<"Pod", "default", "foo">>}}

\* The annotations of the workloads of the initial manifests: the key absent,
\* null, a map with another annotation, a map with another seccomp profile
AnnotationsVariants ==
    {YNull, YMap([owner |-> YStr("team")]),
     Put(YMap(<<>>), profile_name, YStr("unconfined"))}

\* The securityContext of the pod template: null or with another field
PodSecurityContextVariants == {YNull, YMap([runAsNonRoot |-> YBool(TRUE)])}

Annotated(doc, a, sc) ==
    SetAt(SetAt(doc, Keys(<<"metadata">>), Put(Get(doc, "metadata"), "annotations", a)),
          Keys(<<"spec", "template", "spec">>),
          Put(GetAt(doc, Keys(<<"spec", "template", "spec">>)), "securityContext", sc))

SeccompManifests ==
    {Manifest(PlainContainer, SomeRules)}
    \cup
    {[Manifest(PlainContainer, SomeRules) EXCEPT
         ![1] = SetAt(@, Keys(<<"metadata">>), Put(Get(@, "metadata"), "labels", l))] :
        l \in {YNull, YMap([tier |-> YStr("web")])}}
    \cup
    {[Manifest(PlainContainer, SomeRules) EXCEPT
         ![1] = Annotated(@, a, sc), ![5] = Annotated(@, a, sc)] :
        a \in AnnotationsVariants, sc \in PodSecurityContextVariants}

\* Volumes of a pod spec: two that mount the docker socket, an emptyDir and
\* another hostPath
HostVolume(name, path) == YMap([name |-> YStr(name), hostPath |-> YMap([path |-> YStr(path)])])

Sock1 == HostVolume("sock", "/var/run/docker.sock")
Sock2 == HostVolume("sock2", "/run/docker.sock")
Logs == HostVolume("logs", "/var/log")
Data == YMap([name |-> YStr("data"), emptyDir |-> EmptyMap])

VolumesVariants ==
    {YNull, YSeq(<<Sock1>>), YSeq(<<Sock1, Sock2>>), YSeq(<<Data, Logs>>),
     YSeq(<<Sock1, Data, Sock2>>), YSeq(<<Data, Sock1, Sock2, Logs>>)}

\* A container with ports and volume mounts
PortsContainer ==
    YMap([name |-> YStr("main"), image |-> YStr("nginx"),
          ports |-> YSeq(<<YMap([containerPort |-> YInt(80)]),
                           YMap([containerPort |-> YInt(22)]),
                           YMap([name |-> YStr("ssh"), containerPort |-> YInt(22)])>>),
          volumeMounts |-> YSeq(<<
              YMap([name |-> YStr("data"), mountPath |-> YStr("/data")]),
              YMap([name |-> YStr("logs"), mountPath |-> YStr("/logs"),
                    subPath |-> YStr("app")])>>)])

InitContainer == Container("init", "busybox")

\* doc with key set to val in the pod spec of its template
PodWith(doc, key, val) ==
    SetAt(doc, Keys(<<"spec", "template", "spec">>),
          Put(GetAt(doc, Keys(<<"spec", "template", "spec">>)), key, val))

\* The manifests of the list checks: the Deployment has an init container
\* and, but for the first two manifests, volumes
VolumeManifests ==
    {[Manifest(c, SomeRules) EXCEPT
         ![1] = PodWith(@, "initContainers", YSeq(<<InitContainer>>))] :
        c \in {PlainContainer, PortsContainer}}
    \cup
    {[Manifest(c, SomeRules) EXCEPT
         ![1] = PodWith(PodWith(@, "initContainers", YSeq(<<InitContainer>>)),
                        "volumes", v)] :
        c \in {PlainContainer, PortsContainer}, v \in VolumesVariants}

\* The findings of the list checks and of the host-port check
VolumeFindings ==
    {Finding(id, rp, NoPath) :
        id \in {"check_15", "check_47"},
        rp \in {<<"Deployment", "default", "nginx">>, <<"Pod", "prod", "foo">>}}
    \cup
    {Finding(id, <<"Deployment", "default", "nginx">>, op) :
        id \in {"check_50", "check_68"}, op \in {Container0, Container1}}
    \cup
    {Finding("check_29", <<"Deployment", "default", "nginx">>, NoPath)}

FindingsOf(r) ==
    CASE r = "companions" -> CompanionFindings
      [] r = "resources" -> ResourceFindings
      [] r = "capabilities" -> CapabilityFindings
      [] r = "rbac" -> RbacFindings
      [] r = "admin" -> AdminFindings
      [] r = "accounts" -> AccountFindings
      [] r = "workloads" -> WorkloadFindings
      [] r = "images" -> ImageFindings
      [] r = "seccomp" -> SeccompFindings
      [] r = "volumes" -> VolumeFindings

ManifestsOf(r) ==
    CASE r = "resources" -> {Manifest(c, SomeRules) : c \in ResourcesVariants}
      [] r = "capabilities" -> {Manifest(c, SomeRules) : c \in SecurityContextVariants}
      [] r = "rbac" -> {Manifest(PlainContainer, rules) : rules \in RulesVariants}
      [] r = "workloads" -> {Manifest(c, SomeRules) : c \in {PlainContainer, EnvContainer}}
      [] r = "images" -> {Manifest(c, SomeRules) : c \in ImageVariants}
      [] r = "seccomp" -> SeccompManifests
      [] r = "volumes" -> VolumeManifests
      [] OTHER -> {Manifest(PlainContainer, SomeRules)}

AllFindings == UNION {FindingsOf(r) : r \in Reports}

---------------------------------------------------------------------------
(* Specification *)

Current ==
    State(template, network_policy, limit_range, resource_quota,
          service_account_idx, outcome)

\* The state when a run starts: the parsed template, the module globals of
\* lines 207-217, no finding applied
Init ==
    /\ report \in Reports
    /\ template \in ManifestsOf(report)
    /\ registry \in RegistriesOf(report)
    /\ network_policy = FALSE
    /\ limit_range = FALSE
    /\ resource_quota = FALSE
    /\ service_account_idx = 0
    /\ outcome = "returned"
    /\ finding = NoFinding
    /\ nfindings = 0
    /\ prev = State(template, FALSE, FALSE, FALSE, 0, "returned")

\* One call set_template(template, check_id, check) of the loop over the
\* findings of the report; an exception that set_template raises is caught
\* nowhere and ends the run
Step(f) ==
    /\ outcome = "returned"
    /\ \E st \in {set_template(Current, f.check_id, f.check)} :
           /\ template' = st.template
           /\ network_policy' = st.network_policy
           /\ limit_range' = st.limit_range
           /\ resource_quota' = st.resource_quota
           /\ service_account_idx' = st.service_account_idx
           /\ outcome' = st.outcome
    /\ prev' = Current
    /\ finding' = f
    /\ nfindings' = nfindings + 1
    /\ UNCHANGED <<report, registry>>

Apply(f) == nfindings < MaxFindings /\ Step(f)

Next == \E f \in FindingsOf(report) : Apply(f)

Spec == Init /\ [][Next]_vars

\* Another call of iterate_checks in the same process: it loads a template
\* and applies the findings of its report; the module globals of
\* fix_template.py are assigned at import and in set_template only, so the
\* call finds them as the call before left them
StartRun ==
    /\ outcome = "returned"
    /\ nfindings > 0
    /\ template' \in ManifestsOf(report)
    /\ nfindings' = 0
    /\ finding' = NoFinding
    /\ outcome' = "returned"
    /\ prev' = State(template', network_policy, limit_range, resource_quota,
                     service_account_idx, "returned")
    /\ UNCHANGED <<network_policy, limit_range, resource_quota, service_account_idx, report,
                    registry>>

InitRuns == Init /\ report = "companions"

NextRuns ==
    \/ \E f \in FindingsOf(report) : Apply(f)
    \/ StartRun

SpecRuns == InitRuns /\ [][NextRuns]_vars

\* A run whose findings all assign ServiceAccount names
InitAccounts == Init /\ report = "accounts"

ApplyAccount(f) == nfindings < MaxAccounts /\ Step(f)

NextAccounts == \E f \in NamedAccountFindings : ApplyAccount(f)

SpecAccounts == InitAccounts /\ [][NextAccounts]_vars

(* The KICS query of a shared ServiceAccount: kics_fix_chart.fix_issue *)

\* get_resource_dict(template, resource_path): the index of the first
\* document of that kind that declares a namespace, is named as the last
\* segment and whose namespace is default, test-ns or segment 1; 0 for None.
\* A document without namespace is never returned.
get_resource_dict(docs, resource_path) ==
    LET found == {i \in 1..Len(docs) :
                    /\ Get(docs[i], "kind") = YStr(resource_path[1])
                    /\ Has(Get(docs[i], "metadata"), "namespace")
                    /\ Get(Get(docs[i], "metadata"), "namespace")
                         \in {YStr("default"), YStr("test-ns"), YStr(resource_path[2])}
                    /\ Get(Get(docs[i], "metadata"), "name")
                         = YStr(Last(resource_path))}
    IN  IF found = {} THEN 0 ELSE CHOOSE i \in found : \A j \in found : i <= j

\* service_account = copy.copy(service_account), then the assignments to
\* service_account["metadata"]: the copy is shallow, so metadata is the same
\* mapping in the copy and in the document it was copied from.
RenamedAccount(service_account, jdx) ==
    LET metadata == Put(Get(service_account, "metadata"), "name",
                        YStr("test-SA" \o ToString(jdx)))
    IN  Put(service_account, "metadata",
            IF Has(metadata, "namespace") /\ Get(metadata, "namespace") = YStr("default")
            THEN Put(metadata, "namespace", YStr("test-ns"))
            ELSE metadata)

\* One iteration of the loop "for jdx, file in enumerate(check["files"])" of
\* fix_issue for a query mapped to check_62, on file k (jdx = k - 1).
\* check_id is the local variable of fix_issue: the branch of check_62
\* assigns "check_37" to it, and it keeps that value for the files that
\* follow.  The result is the state and check_id after the iteration.
FileStep(st, file, k, check_id) ==
    LET resource_path == <<file.resource_type, file.resource_name>>
        paths == [resource_path |-> resource_path,
                  obj_path |-> <<"spec", "template", "spec", "serviceAccountName">>]
        w == get_resource_dict(st.template, resource_path)
    IN  IF check_id # "check_62"
        THEN [st |-> set_template(st, check_id, paths), check_id |-> check_id]
        ELSE IF k = 1 THEN [st |-> st, check_id |-> check_id]
        ELSE IF w = 0 \/ ~Has(st.template[w], "spec")
        THEN [st |-> [st EXCEPT !.outcome = "raised"], check_id |-> check_id]
        ELSE LET pod == GetAt(st.template[w], PodSpecPlace(st.template[w]).path)
             IN  IF ~Has(pod, "serviceAccountName")
                 THEN [st |-> [st EXCEPT !.outcome = "raised"], check_id |-> check_id]
                 ELSE LET sa == get_resource_dict(st.template,
                                   <<"ServiceAccount",
                                     Get(Get(st.template[w], "metadata"), "namespace").v,
                                     Get(pod, "serviceAccountName").v>>)
                      IN  IF sa = 0 THEN [st |-> st, check_id |-> check_id]
                          ELSE CHOOSE r \in
                                 {[st |-> set_template(
                                              copied, "check_37",
                                              ("value" :> YStr("test-SA" \o ToString(k - 1)))
                                                @@ [paths EXCEPT !.obj_path =
                                                       <<"spec", "template", "spec">>]),
                                   check_id |-> "check_37"] :
                                    copied \in
                                      {[st EXCEPT !.template =
                                           Append([@ EXCEPT ![sa] = RenamedAccount(@, k - 1)],
                                                  RenamedAccount(@[sa], k - 1))]}} : TRUE

\* The loop over the files from file k on; an exception ends it
RECURSIVE fix_issue(_, _, _, _)
fix_issue(st, files, k, check_id) ==
    IF k > Len(files) \/ st.outcome # "returned" THEN st
    ELSE CHOOSE r \in {fix_issue(s.st, files, k + 1, s.check_id) :
                          s \in {FileStep(st, files[k], k, check_id)}} : TRUE

\* The manifests of a chart whose workloads share one ServiceAccount
ServiceAccountDoc(name, namespace) ==
    YMap([apiVersion |-> YStr("v1"), kind |-> YStr("ServiceAccount"),
          metadata |-> Meta(name, namespace)])

SharingWorkload(kind, name, namespace) ==
    PodWith(Workload(kind, name, namespace, <<PlainContainer>>),
            "serviceAccountName", YStr("shared"))

SharedManifests ==
    {<<SharingWorkload("Deployment", "nginx", "default"),
       SharingWorkload("StatefulSet", "web", "default"),
       SharingWorkload("DaemonSet", "agent", "test-ns"),
       ServiceAccountDoc("shared", namespace)>> :
        namespace \in {"default", "prod", ""}}

\* The files of a query: the workloads KICS lists for the shared account
Files ==
    {[resource_type |-> "Deployment", resource_name |-> "nginx"],
     [resource_type |-> "StatefulSet", resource_name |-> "web"],
     [resource_type |-> "DaemonSet", resource_name |-> "agent"]}

Queries ==
    {files \in UNION {[1..n -> Files] : n \in 1..Cardinality(Files)} :
        \A i, j \in DOMAIN files : i # j => files[i] # files[j]}

\* A run of kics_fix_chart.iterate_checks whose queries are all mapped to
\* check_62; one step is one call fix_issue(check, template)
InitShared ==
    /\ report = "shared"
    /\ template \in SharedManifests
    /\ registry = Reachable
    /\ network_policy = FALSE
    /\ limit_range = FALSE
    /\ resource_quota = FALSE
    /\ service_account_idx = 0
    /\ outcome = "returned"
    /\ finding = NoFinding
    /\ nfindings = 0
    /\ prev = State(template, FALSE, FALSE, FALSE, 0, "returned")

FixIssue(files) ==
    /\ outcome = "returned"
    /\ nfindings < MaxFindings
    /\ \E st \in {fix_issue(Current, files, 1, "check_62")} :
           /\ template' = st.template
           /\ network_policy' = st.network_policy
           /\ limit_range' = st.limit_range
           /\ resource_quota' = st.resource_quota
           /\ service_account_idx' = st.service_account_idx
           /\ outcome' = st.outcome
    /\ prev' = Current
    /\ finding' = [check_id |-> "check_62", check |-> [files |-> files]]
    /\ nfindings' = nfindings + 1
    /\ UNCHANGED <<report, registry>>

NextShared == \E files \in Queries : FixIssue(files)

SpecShared == InitShared /\ [][NextShared]_vars

---------------------------------------------------------------------------
(* Vocabulary of the properties *)

\* A finding has been applied; prev is the state it was applied to
Applied == finding.check_id # "none"

Rp == finding.check.resource_path
Op == finding.check.obj_path

NameOf(d) == Get(Get(d, "metadata"), "name")
HasNamespace(d) == Has(Get(d, "metadata"), "namespace")
NamespaceOf(d) == Get(Get(d, "metadata"), "namespace")
NamespaceOrDefault(d) == IF HasNamespace(d) THEN NamespaceOf(d) ELSE YStr("default")

Triple(d) == <<Get(d, "kind"), NamespaceOrDefault(d), NameOf(d)>>

KindCount(t, kind) == Cardinality({i \in 1..Len(t) : Get(t[i], "kind") = YStr(kind)})

\* The documents of the template the finding was applied to that its resource
\* path matches
Matched == {i \in 1..Len(prev.template) : check_resource_path(Rp, prev.template[i])}

\* t is s with n documents appended
Appended(t, s, n) == Len(t) = Len(s) + n /\ SubSeq(t, 1, Len(s)) = s

\* The resource paths findings carry
ResourcePaths ==
    {f.check.resource_path : f \in AllFindings}
    \cup {<<"Pod", "kube-system", "foo">>, <<"pod", "test-ns", "foo">>,
          <<"StatefulSet", "web">>, <<"StatefulSet", "default", "web">>}

---------------------------------------------------------------------------
(* Properties *)

\* C1: no two Documents of the Manifest have the same (kind,
\* namespace-or-default, name) triple, after any sequence of findings.
C1_DocumentsUnique ==
    \A i, j \in 1..Len(template) :
        i # j => Triple(template[i]) # Triple(template[j])

\* C2: NetworkPolicy injection happens once per manifest: the first check_40
\* finding appends the two NetworkPolicy documents, every later check_40
\* finding appends nothing, so the manifest never holds more than one pair.
C2_NetworkPolicyOnce ==
    /\ KindCount(template, "NetworkPolicy") <= 2
    /\ finding.check_id = "check_40" =>
          IF KindCount(prev.template, "NetworkPolicy") = 0
          THEN Appended(template, prev.template, 2)
          ELSE template = prev.template

\* C3: the LimitRange documents and the ResourceQuota documents the engine
\* appended number 0 or 2; a check_48 (check_49) finding whose resource
\* resolves appends the pair when no pair was appended before, and every
\* other check_48 (check_49) finding appends nothing.
GuardedPair(check_id, kind) ==
    /\ KindCount(template, kind) \in {0, 2}
    /\ finding.check_id = check_id =>
          IF Matched # {} /\ KindCount(prev.template, kind) = 0
          THEN /\ Appended(template, prev.template, 2)
               /\ KindCount(template, kind) = 2
          ELSE template = prev.template

C3_CompanionPairGuarded ==
    /\ GuardedPair("check_48", "LimitRange")
    /\ GuardedPair("check_49", "ResourceQuota")

\* A second resolving check_48 finding has been applied and has appended nothing
C3_Witness ==
    /\ finding.check_id = "check_48"
    /\ Matched # {}
    /\ KindCount(prev.template, "LimitRange") = 2
    /\ KindCount(template, "LimitRange") = 2
    /\ template = prev.template

\* C4: a Document whose kind matches segment 0 and that declares namespace
\* default, test-ns or kube-system matches a resource path exactly when its
\* name is the last segment; one that declares another namespace matches
\* exactly when the namespace is segment 1 and the name is the last segment.
\* Pod/default/foo matches the Pod foo without namespace and the Pod foo in
\* test-ns, and does not match the Pod foo in prod.
AliasNamespaces == {YStr("default"), YStr("test-ns"), YStr("kube-system")}

C4_NamespaceAliasing ==
    \A i \in 1..Len(template) : \A p \in ResourcePaths :
        LET d == template[i]
        IN  /\ (casefold(Get(d, "kind").v) = casefold(p[1]) /\ HasNamespace(d)) =>
                  IF NamespaceOf(d) \in AliasNamespaces
                  THEN check_resource_path(p, d) <=> NameOf(d) = YStr(Last(p))
                  ELSE check_resource_path(p, d) <=>
                          (NamespaceOf(d) = YStr(p[2]) /\ NameOf(d) = YStr(Last(p)))
            /\ (Get(d, "kind") = YStr("Pod") /\ NameOf(d) = YStr("foo")) =>
                  (check_resource_path(<<"Pod", "default", "foo">>, d)
                      <=> NamespaceOrDefault(d) # YStr("prod"))

\* A finding for Pod/default/foo has changed the Pod foo without namespace and
\* the Pod foo in test-ns and has left the Pod foo in prod alone
C4_Witness ==
    /\ Applied
    /\ Rp = <<"Pod", "default", "foo">>
    /\ \E i, j, k \in 1..Len(template) :
          /\ Triple(template[i]) = <<YStr("Pod"), YStr("default"), YStr("foo")>>
          /\ Triple(template[j]) = <<YStr("Pod"), YStr("test-ns"), YStr("foo")>>
          /\ Triple(template[k]) = <<YStr("Pod"), YStr("prod"), YStr("foo")>>
          /\ template[i] # prev.template[i]
          /\ template[j] # prev.template[j]
          /\ template[k] = prev.template[k]

\* C5: after a check_1 finding without value, a container that the finding's
\* object path leads to in a Document its resource path matches, and that
\* had no resources key, has resources.requests.memory "128Mi".
LedTo(i) == walk(prev.template[i], Op, <<>>, FALSE)

C5_MemoryRequestDefault ==
    (finding.check_id = "check_1" /\ "value" \notin DOMAIN finding.check
        /\ outcome = "returned") =>
        \A i \in Matched :
            (LedTo(i).ok /\ Has(LedTo(i).obj, "image") /\ ~Has(LedTo(i).obj, "resources")) =>
                LET container == GetAt(template[i], LedTo(i).path)
                IN  /\ Has(container, "resources")
                    /\ Has(Get(container, "resources"), "requests")
                    /\ Has(Get(Get(container, "resources"), "requests"), "memory")
                    /\ Get(Get(Get(container, "resources"), "requests"), "memory")
                          = YStr("128Mi")

\* The finding of the scenario has been applied to the Deployment nginx, whose
\* first container had no resources key
C5_Witness ==
    /\ finding = Finding("check_1", <<"Deployment", "default", "nginx">>, Container0)
    /\ outcome = "returned"
    /\ Matched = {1}
    /\ ~Has(LedTo(1).obj, "resources")
    /\ Has(LedTo(1).obj, "image")
    /\ Get(Get(Get(GetAt(template[1], LedTo(1).path), "resources"), "requests"), "memory")
          = YStr("128Mi")

\* C6 (as claimed): after a capability check on a container,
\* securityContext.capabilities is exactly {drop: D}, plus {add: A} when the
\* finding supplies a non-empty add list A, where D is the finding's drop
\* list when supplied and ["ALL"] otherwise.
IsCapabilityCheck == finding.check_id \in {"check_23", "check_24", "check_34"}

AddSupplied == "add" \in DOMAIN finding.check /\ Truthy(finding.check.add)

ExpectedCapabilities(D) ==
    IF AddSupplied THEN YMap([drop |-> D, add |-> finding.check.add])
    ELSE YMap([drop |-> D])

CapabilitiesAre(D) ==
    (IsCapabilityCheck /\ outcome = "returned") =>
        \A i \in Matched :
            (LedTo(i).ok /\ Has(LedTo(i).obj, "image")) =>
                LET container == GetAt(template[i], LedTo(i).path)
                IN  /\ Has(container, "securityContext")
                    /\ Has(Get(container, "securityContext"), "capabilities")
                    /\ Get(Get(container, "securityContext"), "capabilities")
                          = ExpectedCapabilities(D)

FirstMatched == CHOOSE i \in Matched : \A j \in Matched : i <= j

DroppedRule(r) ==
    \/ /\ Has(r, "resources")
       /\ \E x \in {"pods/exec", "secrets", "events"} : InList(Get(r, "resources"), x)
    \/ Has(r, "nonResourceURLs")

SanitizedRule(r) ==
    /\ ~DroppedRule(r)
    /\ Has(r, "verbs") => \A v \in unsafe_verbs : ~InList(Get(r, "verbs"), v)

OnlyUnsafeVerbs(r) ==
    /\ Has(r, "verbs")
    /\ IsSeq(Get(r, "verbs"))
    /\ \/ Get(r, "verbs") = StrList(<<"*">>)
       \/ \A k \in 1..Len(Get(r, "verbs").s) : Get(r, "verbs").s[k].v \in unsafe_verbs

C7_RbacSanitized ==
    (finding.check_id = "check_54" /\ Matched # {}) =>
        LET before == prev.template[FirstMatched]
            after == template[FirstMatched]
        IN  (/\ Get(before, "kind") \in {YStr("Role"), YStr("ClusterRole")}
             /\ Has(before, "rules")
             /\ IsSeq(Get(before, "rules"))
             /\ Len(Get(before, "rules").s) > 0) =>
                LET old == Get(before, "rules").s
                    new == Get(after, "rules").s
                    IsKept(k) == ~DroppedRule(old[k])
                    kept == SelectSeq([k \in 1..Len(old) |-> k], IsKept)
                IN  /\ \A k \in 1..Len(new) : SanitizedRule(new[k])
                    /\ Len(new) = Len(kept)
                    /\ \A k \in 1..Len(new) :
                          /\ DOMAIN new[k].m = DOMAIN old[kept[k]].m
                          /\ OnlyUnsafeVerbs(old[kept[k]]) =>
                                Get(new[k], "verbs") = StrList(<<"get">>)

\* C8: a check_65 finding whose resource path resolves to a ClusterRoleBinding
\* sets roleRef.name of that Document to "view", whatever its object path,
\* and changes nothing else.
C8_ClusterAdminRemoved ==
    (finding.check_id = "check_65" /\ Matched # {}) =>
        (Get(prev.template[FirstMatched], "kind") = YStr("ClusterRoleBinding") =>
            /\ outcome = "returned"
            /\ Get(Get(template[FirstMatched], "roleRef"), "name") = YStr("view")
            /\ template = [prev.template EXCEPT ![FirstMatched] =
                              Put(@, "roleRef", Put(Get(@, "roleRef"), "name", YStr("view")))]
            /\ Current = [prev EXCEPT !.template = template])

\* A check_65 finding with an object path into roleRef has been applied to
\* the binding to cluster-admin
C8_Witness ==
    /\ finding = Finding("check_65", <<"ClusterRoleBinding", "crb">>, <<"roleRef", "name">>)
    /\ Matched = {6}
    /\ Get(Get(prev.template[6], "roleRef"), "name") = YStr("cluster-admin")
    /\ Get(Get(template[6], "roleRef"), "name") = YStr("view")

\* C9: the object path walk never fails: in a Document the resource path
\* matches, every object path leads somewhere, and a finding whose mutation
\* function does nothing (todo) raises no error and changes nothing.
TakesWalk ==
    /\ Applied
    /\ finding.check_id \notin no_path_checks \cup {"check_40", "check_33"}
    /\ get_value(finding.check_id) # "None"

C9_WalkNeverRaises ==
    /\ TakesWalk => \A i \in Matched : LedTo(i).ok
    /\ finding.check_id = "check_16" => (outcome = "returned" /\ template = prev.template)

\* C10: a finding of a check other than check_40 whose resource path matches
\* no Document raises nothing and leaves the Manifest, the injection flags
\* and the ServiceAccount counter unchanged.
C10_UnresolvableNoop ==
    (Applied /\ finding.check_id # "check_40" /\ Matched = {}) => Current = prev

\* A check_48 finding for a Pod that is not in the Manifest has been applied
C10_Witness ==
    /\ finding = Finding("check_48", MissingPod, NoPath)
    /\ Matched = {}
    /\ outcome = "returned"
    /\ ~limit_range
    /\ template = prev.template

\* C11: when several Documents match the finding's resource path, only the
\* first of them in manifest order is changed, whatever the check id.
C11_FirstMatchOnly ==
    (Applied /\ Matched # {}) =>
        \A i \in 1..Len(prev.template) :
            i # FirstMatched => template[i] = prev.template[i]

\* C12: a check_60 finding whose resource path resolves appends exactly one
\* PodDisruptionBudget Document at the end of the Manifest.
C12_OnePdbPerFinding ==
    (finding.check_id = "check_60" /\ Matched # {}) =>
        /\ Len(template) = Len(prev.template) + 1
        /\ Get(template[Len(template)], "kind") = YStr("PodDisruptionBudget")
        /\ KindCount(template, "PodDisruptionBudget")
              = KindCount(prev.template, "PodDisruptionBudget") + 1

\* C13: the ServiceAccount counter never decreases, grows by exactly one per
\* check_37 mutation performed and by nothing else, and the
\* serviceAccountName values written by different check_37 mutations are
\* pairwise distinct (so no two Documents carry the same written name).
CounterStep ==
    IF finding.check_id = "check_37" /\ Matched # {} /\ outcome = "returned" THEN 1 ELSE 0

HasAccountName(d) ==
    PodSpecPlace(d).ok /\ HasAt(d, PodSpecPlace(d).path)
        /\ Has(GetAt(d, PodSpecPlace(d).path), "serviceAccountName")

AccountName(d) == Get(GetAt(d, PodSpecPlace(d).path), "serviceAccountName")

C13_CounterNaming ==
    /\ service_account_idx >= prev.service_account_idx
    /\ service_account_idx = prev.service_account_idx + CounterStep
    /\ \A i, j \in 1..Len(template) :
          (i # j /\ HasAccountName(template[i]) /\ HasAccountName(template[j])) =>
              AccountName(template[i]) # AccountName(template[j])

\* C14: two findings neither of which uses the ServiceAccount counter
\* (check_37) or appends a companion Document (check_40, check_48, check_49,
\* check_60) give the same Manifest in either order.
OrderFree(f) ==
    f.check_id \notin {"check_37", "check_40", "check_48", "check_49", "check_60"}

Both(st, f, g) ==
    LET st1 == set_template(st, f.check_id, f.check)
    IN  IF st1.outcome = "returned" THEN set_template(st1, g.check_id, g.check) ELSE st1

C14_OrderInsensitive ==
    nfindings = 0 =>
        \A f, g \in FindingsOf(report) :
            (/\ OrderFree(f) /\ OrderFree(g)
             /\ Both(Current, f, g).outcome = "returned"
             /\ Both(Current, g, f).outcome = "returned") =>
                Both(Current, f, g).template = Both(Current, g, f).template

\* C15: applying the same check_54 finding a second time to a Role or
\* ClusterRole changes nothing, whatever its rules list was (absent, empty,
\* or one in which every rule is dropped).
C15_RbacIdempotent ==
    (finding.check_id = "check_54" /\ Matched # {} /\ outcome = "returned") =>
        set_template(Current, finding.check_id, finding.check) = Current

\* C16: applying the same check_33 finding a second time changes nothing:
\* the Pod spec keeps one secret-volume entry in volumes and one in each
\* container's volumeMounts.
C16_SecretsIdempotent ==
    (finding.check_id = "check_33" /\ Matched # {} /\ outcome = "returned") =>
        set_template(Current, finding.check_id, finding.check) = Current

\* C17: at the start of every run (a Manifest has been loaded and no finding
\* applied yet) the three injection flags are false and the ServiceAccount
\* counter is 0, also when an earlier run of the same process set them.
C17_ResetPerRun ==
    nfindings = 0 =>
        /\ ~network_policy
        /\ ~limit_range
        /\ ~resource_quota
        /\ service_account_idx = 0

\* C18 (as claimed): the dispatch table has an entry for check_i, for every
\* i in 0..68.
CheckId(i) == "check_" \o ToString(i)

C18_TableTotal ==
    \A i \in 0..68 :
        /\ CheckId(i) \in DOMAIN _LOOKUP
        /\ finding.check_id = CheckId(i) => get_value(finding.check_id) # "None"

\* C18 (amended): the dispatch table has an entry for check_i for every i in
\* 0..68 except 51 and 61; for check_51 and check_61 the lookup gives None
\* and a finding of a check without entry changes nothing.
C18_TableCoverage ==
    /\ \A i \in 0..68 : CheckId(i) \in DOMAIN _LOOKUP <=> i \notin {51, 61}
    /\ \A i \in {51, 61} : get_value(CheckId(i)) = "None"
    /\ (Applied /\ finding.check_id \notin DOMAIN _LOOKUP) => Current = prev

\* A check_51 finding for a Document of the Manifest has been applied
C18_Witness ==
    /\ finding = Finding("check_51", <<"ClusterRoleBinding", "crb">>, NoPath)
    /\ Matched = {6}
    /\ outcome = "returned"
    /\ template = prev.template

---------------------------------------------------------------------------
(* C19 *)

\* A lookup of the finding failed or returned nothing: the tag lookup for
\* check_0 and check_9, or the digest lookup that check_9 makes after it.
TagLookupFailed == ~(IsStr(registry.tag) /\ registry.tag.v # "")

DigestLookupFailed == ~(IsStr(registry.digest) /\ registry.digest.v # "")

LookupFailed ==
    \/ finding.check_id \in {"check_0", "check_9"} /\ TagLookupFailed
    \/ finding.check_id = "check_9" /\ DigestLookupFailed

\* The image of the container the finding of document i led to, in state st
ImageAt(docs, i) == Get(GetAt(docs[i], LedTo(i).path), "image")

\* C19: when the tag lookup or the digest lookup of a check_0 or check_9
\* finding fails or returns nothing, the image of the container is the same
\* after the call as before it, also when the tag lookup succeeded and the
\* digest lookup failed.
C19_LookupFailureKeepsImage ==
    LookupFailed =>
        \A i \in Matched :
            (LedTo(i).ok /\ Has(LedTo(i).obj, "image"))
                => ImageAt(template, i) = ImageAt(prev.template, i)

---------------------------------------------------------------------------
(* C20 *)

\* The finding is a check_31 finding and the Document it is applied to, the
\* first one that matches, has spec.template
SeccompOnTemplated ==
    /\ finding.check_id = "check_31"
    /\ Matched # {}
    /\ HasAt(prev.template[FirstMatched], Keys(<<"spec", "template">>))

\* annotations holds the seccomp annotation with the profile runtime/default
HasProfileAnnotation(doc, annotations) ==
    /\ HasAt(doc, annotations)
    /\ Has(GetAt(doc, annotations), profile_name)
    /\ Get(GetAt(doc, annotations), profile_name) = YStr("runtime/default")

\* C20 as stated: after a check_31 finding is applied to a templated workload,
\* the seccomp annotation is in spec.template.metadata.annotations of the
\* Document, whatever obj_path the finding carried.
C20_PodTemplateAnnotation ==
    SeccompOnTemplated =>
        HasProfileAnnotation(template[FirstMatched],
                             Keys(<<"spec", "template", "metadata", "annotations">>))

\* C20, amended: after a check_31 finding is applied to a templated workload,
\* the seccomp annotation is in metadata.annotations of the Document itself,
\* spec.template.metadata is as it was, and
\* spec.template.spec.securityContext.seccompProfile is {type: RuntimeDefault},
\* whatever obj_path the finding carried.
C20_DocumentAnnotation ==
    SeccompOnTemplated =>
        /\ outcome = "returned"
        /\ HasProfileAnnotation(template[FirstMatched], Keys(<<"metadata", "annotations">>))
        /\ GetAt(template[FirstMatched], Keys(<<"spec", "template", "metadata">>))
             = GetAt(prev.template[FirstMatched], Keys(<<"spec", "template", "metadata">>))
        /\ HasAt(template[FirstMatched],
                 Keys(<<"spec", "template", "spec", "securityContext", "seccompProfile">>))
        /\ GetAt(template[FirstMatched],
                 Keys(<<"spec", "template", "spec", "securityContext", "seccompProfile">>))
             = SeccompProfile

\* A check_31 finding that carries the path of a container was applied to a
\* workload whose metadata had other annotations, and the annotation is in
\* the metadata of the Document.
C20_Witness ==
    /\ SeccompOnTemplated
    /\ Op # NoPath
    /\ HasAt(prev.template[FirstMatched], Keys(<<"metadata", "annotations", "owner">>))
    /\ HasProfileAnnotation(template[FirstMatched], Keys(<<"metadata", "annotations">>))
    /\ HasAt(template[FirstMatched], Keys(<<"metadata", "annotations", "owner">>))

---------------------------------------------------------------------------
(* C21 *)

\* The finding takes the walk with the path of a container written relative
\* to the Pod (spec/containers/0) and document i, which it matches, is a
\* controller (it has spec.template)
ShortPathOnController(i) ==
    /\ TakesWalk
    /\ Op = PodContainer0
    /\ i \in Matched
    /\ HasAt(prev.template[i], Keys(<<"spec", "template", "spec", "containers">>))

\* C21: for a generic-walk check applied to a controller Document, the
\* obj_path spec/containers/0 resolves to the same container as
\* spec/template/spec/containers/0, and the call returns.
C21_TemplateDescent ==
    \A i \in 1..Len(prev.template) :
        ShortPathOnController(i) =>
            /\ LedTo(i).ok
            /\ LedTo(i).path
                 = walk(prev.template[i],
                        <<"spec", "template", "spec", "containers", "0">>, <<>>, FALSE).path
            /\ outcome = "returned"

---------------------------------------------------------------------------
(* C22 *)

\* C22: a Document that declares no namespace and whose kind matches is
\* matched by a resource path kind/ns/name exactly when ns is "default" and
\* its name is name, and by a path kind/name exactly when its name is name.
C22_NoNamespaceMatching ==
    Applied =>
        \A i \in 1..Len(prev.template) :
            LET d == prev.template[i]
            IN  (casefold(Get(d, "kind").v) = casefold(Rp[1]) /\ ~HasNamespace(d)) =>
                    /\ Len(Rp) = 3 =>
                          (i \in Matched <=> (Rp[2] = "default" /\ NameOf(d) = YStr(Rp[3])))
                    /\ Len(Rp) = 2 => (i \in Matched <=> NameOf(d) = YStr(Rp[2]))

---------------------------------------------------------------------------
(* C23 *)

\* C23: after a check_1, check_2, check_4 or check_5 finding that carries a
\* value, the field the check targets (resources.requests.memory,
\* resources.limits.memory, resources.requests.cpu, resources.limits.cpu)
\* of the container equals that value, whatever resources the container had.
C23_ValueHonoured ==
    (finding.check_id \in {"check_1", "check_2", "check_4", "check_5"}
        /\ "value" \in DOMAIN finding.check) =>
        \A i \in Matched :
            (LedTo(i).ok /\ Has(LedTo(i).obj, "image")) =>
                LET d == Setter[get_value(finding.check_id)]
                    field == LedTo(i).path \o Keys(<<"resources", d.part, d.name>>)
                IN  /\ outcome = "returned"
                    /\ HasAt(template[i], field)
                    /\ GetAt(template[i], field) = finding.check.value

---------------------------------------------------------------------------
(* C24 *)

\* The key of the list a list-filter check filters
FilteredList ==
    CASE finding.check_id \in {"check_15", "check_47"} -> "volumes"
      [] finding.check_id = "check_50" -> "volumeMounts"
      [] finding.check_id = "check_68" -> "ports"
      [] OTHER -> "none"

\* The object that holds the list, in document i before the call: the pod
\* spec for check_15 and check_47, the container reached for the others
ListHolder(i) ==
    IF finding.check_id \in {"check_15", "check_47"}
    THEN GetAt(prev.template[i], PodSpecPlace(prev.template[i]).path)
    ELSE LedTo(i).obj

\* C24: a check_15, check_47, check_50 or check_68 finding applied to a
\* target that has no volumes, volumeMounts or ports key returns without
\* error and leaves the manifest as it was.
C24_ListChecksNeverRaise ==
    (FilteredList # "none" /\ Matched # {} /\ LedTo(FirstMatched).ok
        /\ IsMap(ListHolder(FirstMatched))
        /\ ~Has(ListHolder(FirstMatched), FilteredList)) =>
        (outcome = "returned" /\ template = prev.template)

---------------------------------------------------------------------------
(* C26 *)

\* The volumes of the pod spec of document i of docs
VolumesOf(docs, i) == Get(GetAt(docs[i], PodSpecPlace(docs[i]).path), "volumes")

\* The volumes that do not mount the docker socket, in their order
RECURSIVE OtherVolumes(_)
OtherVolumes(volumes) ==
    IF volumes = <<>> THEN <<>>
    ELSE IF IsDockerSocket(Head(volumes)) THEN OtherVolumes(Tail(volumes))
    ELSE <<Head(volumes)>> \o OtherVolumes(Tail(volumes))

\* C26: after a check_15 finding is applied to a workload whose pod spec has
\* a volumes list, the list holds no volume whose hostPath.path contains
\* "docker.sock" and holds every other volume in its original order.
C26_DockerSocketsRemoved ==
    (finding.check_id = "check_15" /\ Op = NoPath /\ Matched # {}
        /\ HasAt(prev.template[FirstMatched],
                 PodSpecPlace(prev.template[FirstMatched]).path \o Keys(<<"volumes">>))
        /\ IsSeq(VolumesOf(prev.template, FirstMatched))) =>
        /\ outcome = "returned"
        /\ VolumesOf(template, FirstMatched)
             = YSeq(OtherVolumes(VolumesOf(prev.template, FirstMatched).s))

---------------------------------------------------------------------------
(* C27 *)

\* The names of the entries of the list key of the pod spec of doc, in order
NamesIn(doc, key) ==
    LET list == Get(GetAt(doc, PodSpecPlace(doc).path), key).s
    IN  [j \in 1..Len(list) |-> Get(list[j], "name")]

HasList(doc, key) ==
    /\ PodSpecPlace(doc).ok
    /\ HasAt(doc, PodSpecPlace(doc).path \o Keys(<<key>>))
    /\ IsSeq(GetAt(doc, PodSpecPlace(doc).path \o Keys(<<key>>)))

\* C27: a call leaves every workload Document with the containers and the
\* initContainers it had, by count, names and order.
C27_ContainersKept ==
    Applied =>
        \A i \in 1..Len(prev.template) : \A key \in {"containers", "initContainers"} :
            HasList(prev.template[i], key) =>
                /\ HasList(template[i], key)
                /\ NamesIn(template[i], key) = NamesIn(prev.template[i], key)

---------------------------------------------------------------------------
(* C25 *)

\* C25: applying a finding ends: the four resource setters return and the
\* loop over the documents reaches the end of the list, also for the checks
\* that append documents to it and for a check_60 finding whose resource
\* path matches a PodDisruptionBudget named myapp-pdb.
C25_ApplyTerminates ==
    Applied => outcome \in {"returned", "raised"}

---------------------------------------------------------------------------
(* C28 *)

\* C28: a check_40, check_48, check_49 or check_60 finding changes the
\* manifest at most by appending Documents at its end: every Document that
\* was in the manifest before the call is unchanged, the target included.
C28_SynthesisOnlyAppends ==
    finding.check_id \in {"check_40", "check_48", "check_49", "check_60"} =>
        /\ Len(template) >= Len(prev.template)
        /\ \A i \in 1..Len(prev.template) : template[i] = prev.template[i]

---------------------------------------------------------------------------
(* C29 *)

\* labels, at place in doc, holds the two labels with the value MyApp
HasBothLabels(doc, place) ==
    /\ HasAt(doc, place \o Keys(<<"metadata", "labels">>))
    /\ LET labels == GetAt(doc, place \o Keys(<<"metadata", "labels">>))
       IN  /\ Has(labels, "app.kubernetes.io/name")
           /\ Get(labels, "app.kubernetes.io/name") = YStr("MyApp")
           /\ Has(labels, "app")
           /\ Get(labels, "app") = YStr("MyApp")

\* C29: after a check_43 finding on a Document, its metadata.labels and, for
\* a templated workload, the metadata.labels of its pod template hold
\* app.kubernetes.io/name = MyApp and app = MyApp, whether metadata.labels
\* was present, null or absent before.
C29_LabelsSet ==
    (finding.check_id = "check_43" /\ Op = NoPath) =>
        \A i \in Matched :
            /\ HasBothLabels(template[i], <<>>)
            /\ HasAt(prev.template[i], Keys(<<"spec", "template">>))
                  => HasBothLabels(template[i], Keys(<<"spec", "template">>))

---------------------------------------------------------------------------
(* C30 *)

\* The serviceAccountName of the pod spec of doc
AccountOf(doc) == Get(GetAt(doc, PodSpecPlace(doc).path), "serviceAccountName")

\* Document i is a workload that the call re-pointed to another account
RePointed(i) ==
    /\ Has(prev.template[i], "spec")
    /\ Has(GetAt(prev.template[i], PodSpecPlace(prev.template[i]).path), "serviceAccountName")
    /\ AccountOf(template[i]) # AccountOf(prev.template[i])

\* C30: after the files of a query mapped to check_62 are processed, every
\* workload that was re-pointed names a ServiceAccount Document of the
\* manifest, and the ServiceAccount Documents that were there before have
\* the name and the namespace they had.
C30_SharedAccountSplit ==
    finding.check_id = "check_62" =>
        \A i \in 1..Len(prev.template) :
            /\ RePointed(i) =>
                  \E j \in 1..Len(template) :
                      /\ Get(template[j], "kind") = YStr("ServiceAccount")
                      /\ Get(Get(template[j], "metadata"), "name") = AccountOf(template[i])
            /\ Get(prev.template[i], "kind") = YStr("ServiceAccount") =>
                  Get(template[i], "metadata") = Get(prev.template[i], "metadata")

====
